---- MODULE Spec2Model ----
(***************************************************************************)
(* Model of the bolt sizing engine of Bolt_Calculator (src/calculation.py) *)
(* and of the tables it uses.                                              *)
(*                                                                         *)
(* Numbers.  Python floats are modelled as exact rationals <<num, den>>    *)
(* with den > 0, kept in lowest terms.  Two library values are tabulated:  *)
(* math.pi is 355/113 and math.log10 is rounded to thousandths.            *)
(***************************************************************************)
EXTENDS Integers, Sequences, FiniteSets, TLC

(* ----------------------------- bounds ---------------------------------- *)

\* depth of nested _check calls at which the interpreter raises RecursionError
RecursionLimit == 9

\* largest diameter handed to _calc_k_t when the tables are exercised alone
MaxKtD == 320

(* ------------------------- rational arithmetic ------------------------- *)

Abs(x) == IF x < 0 THEN -x ELSE x

RECURSIVE GCD(_, _)
GCD(a, b) == IF b = 0 THEN a ELSE GCD(b, a % b)

Rat(num, den) ==
    LET g == GCD(Abs(num), den) IN <<num \div g, den \div g>>

RInt(i) == <<i, 1>>

RMul(x, y) ==
    LET g1 == GCD(Abs(x[1]), y[2])
        g2 == GCD(Abs(y[1]), x[2])
    IN  <<(x[1] \div g1) * (y[1] \div g2), (x[2] \div g2) * (y[2] \div g1)>>

\* x / y for y > 0
RDiv(x, y) == RMul(x, <<y[2], y[1]>>)

\* a/b <= c/e for b, e > 0, by comparing the continued fractions
RECURSIVE FracLeq(_, _, _, _)
FracLeq(a, b, c, e) ==
    LET qa == a \div b
        qc == c \div e
        ra == a % b
        rc == c % e
    IN  IF qa # qc THEN qa < qc
        ELSE IF ra = 0 THEN TRUE
        ELSE IF rc = 0 THEN FALSE
        ELSE FracLeq(e, rc, b, ra)

RLeq(x, y) == FracLeq(x[1], x[2], y[1], y[2])
RLt(x, y) == ~RLeq(y, x)

\* math.pi
Pi == <<355, 113>>

\* math.log10 of the whole numbers 1..330, in thousandths
Log10Milli ==
   <<
      0, 301, 477, 602, 699, 778, 845, 903, 954, 1000, 1041, 1079, 1114, 1146, 1176,
      1204, 1230, 1255, 1279, 1301, 1322, 1342, 1362, 1380, 1398, 1415, 1431, 1447, 1462, 1477,
      1491, 1505, 1519, 1531, 1544, 1556, 1568, 1580, 1591, 1602, 1613, 1623, 1633, 1643, 1653,
      1663, 1672, 1681, 1690, 1699, 1708, 1716, 1724, 1732, 1740, 1748, 1756, 1763, 1771, 1778,
      1785, 1792, 1799, 1806, 1813, 1820, 1826, 1833, 1839, 1845, 1851, 1857, 1863, 1869, 1875,
      1881, 1886, 1892, 1898, 1903, 1908, 1914, 1919, 1924, 1929, 1934, 1940, 1944, 1949, 1954,
      1959, 1964, 1968, 1973, 1978, 1982, 1987, 1991, 1996, 2000, 2004, 2009, 2013, 2017, 2021,
      2025, 2029, 2033, 2037, 2041, 2045, 2049, 2053, 2057, 2061, 2064, 2068, 2072, 2076, 2079,
      2083, 2086, 2090, 2093, 2097, 2100, 2104, 2107, 2111, 2114, 2117, 2121, 2124, 2127, 2130,
      2134, 2137, 2140, 2143, 2146, 2149, 2152, 2155, 2158, 2161, 2164, 2167, 2170, 2173, 2176,
      2179, 2182, 2185, 2188, 2190, 2193, 2196, 2199, 2201, 2204, 2207, 2210, 2212, 2215, 2217,
      2220, 2223, 2225, 2228, 2230, 2233, 2236, 2238, 2241, 2243, 2246, 2248, 2250, 2253, 2255,
      2258, 2260, 2262, 2265, 2267, 2270, 2272, 2274, 2276, 2279, 2281, 2283, 2286, 2288, 2290,
      2292, 2294, 2297, 2299, 2301, 2303, 2305, 2307, 2310, 2312, 2314, 2316, 2318, 2320, 2322,
      2324, 2326, 2328, 2330, 2332, 2334, 2336, 2338, 2340, 2342, 2344, 2346, 2348, 2350, 2352,
      2354, 2356, 2358, 2360, 2362, 2364, 2365, 2367, 2369, 2371, 2373, 2375, 2377, 2378, 2380,
      2382, 2384, 2386, 2387, 2389, 2391, 2393, 2394, 2396, 2398, 2400, 2401, 2403, 2405, 2407,
      2408, 2410, 2412, 2413, 2415, 2417, 2418, 2420, 2422, 2423, 2425, 2427, 2428, 2430, 2431,
      2433, 2435, 2436, 2438, 2439, 2441, 2442, 2444, 2446, 2447, 2449, 2450, 2452, 2453, 2455,
      2456, 2458, 2459, 2461, 2462, 2464, 2465, 2467, 2468, 2470, 2471, 2473, 2474, 2476, 2477,
      2479, 2480, 2481, 2483, 2484, 2486, 2487, 2489, 2490, 2491, 2493, 2494, 2496, 2497, 2498,
      2500, 2501, 2502, 2504, 2505, 2507, 2508, 2509, 2511, 2512, 2513, 2515, 2516, 2517, 2519

   >>

\* math.log10(a / b) in thousandths
Log10Ratio(a, b) == Log10Milli[a] - Log10Milli[b]

(* ------------------------- input domains ------------------------------- *)

\* load type tags offered by the form, plus an empty and an unknown tag
LoadTypes == {"static", "pulsating", "alternating"}
OtherLoadTypes == {"", "swelling"}

\* clamping case tags offered by the form, plus an unknown tag
Cases == {"Case 1", "Case 2", "Case 3"}
OtherCases == {"Case 4"}

MaterialTypes == {"STRUCTURAL_STEEL", "HEAT_TREATABLE_STEEL", "NITRIDING_STEEL"}

\* the material catalog of a session: type and yield stress [N/mm^2]
Materials ==
    { [type |-> "STRUCTURAL_STEEL", yieldstress |-> 235],
      [type |-> "HEAT_TREATABLE_STEEL", yieldstress |-> 490] }

\* resulting forces typed into the form [N]
Forces == {-5000, 2000, 5000}

\* rod and fork thicknesses typed into the form [mm]
RodThicknesses == {2, 30}
ForkThicknesses == {2, 12}

\* application and safety factors typed into the form
ApplicationFactors == {<<5, 4>>}
SafetyFactors == {<<3, 2>>}

\* the diameter column of the worksheet
StdDiameters == {8, 10, 12, 14, 16, 18, 20}

(* --------------------------- load/case tables -------------------------- *)

\* Calculation._calc_l
CalcL_C9Mutant(lt) ==
    IF lt = "static" THEN <<Rat(3, 10), Rat(2, 10), Rat(35, 100)>>
    ELSE <<Rat(2, 10), Rat(15, 100), Rat(25, 100)>>

CalcL(lt) ==
    IF lt = "static" THEN <<Rat(3, 10), Rat(2, 10), Rat(35, 100)>>
    ELSE IF lt = "pulsating" THEN <<Rat(2, 10), Rat(15, 100), Rat(25, 100)>>
    ELSE <<Rat(15, 100), Rat(1, 10), RInt(1)>>

\* Calculation._calc_m_b: <<bending moment, clamping factor>>
CalcMb_C8Mutant(cs, F, tr, tf, nn) ==
    IF cs = "Case 1" THEN <<Rat(F * (tr + nn * tf), 8), Rat(16, 10)>>
    ELSE IF cs = "Case 2" THEN <<Rat(F * tr, 8), Rat(11, 10)>>
    ELSE <<RInt(F * tf), Rat(11, 10)>>

CalcMb(cs, F, tr, tf, nn) ==
    IF cs = "Case 1" THEN <<Rat(F * (tr + nn * tf), 8), Rat(16, 10)>>
    ELSE IF cs = "Case 2" /\ nn = 2 THEN <<Rat(F * tr, 8), Rat(11, 10)>>
    ELSE IF cs = "Case 2" /\ nn = 1 THEN <<RInt(F * tr), Rat(11, 10)>>
    ELSE IF cs = "Case 3" /\ nn = 2 THEN <<RInt(F * tf), Rat(11, 10)>>
    ELSE <<RInt(F * tf), Rat(11, 10)>>

\* Calculation._calc_k_t: the new value of _k_t; old is its value before
CalcKt_C10Mutant(type, dd, old) ==
    IF type = "HEAT_TREATABLE_STEEL" THEN
        LET raw == Rat(100000 - 41 * Log10Ratio(dd, 16), 100000)
        IN  IF RLt(RInt(1), raw) THEN RInt(1)
            ELSE IF RLt(raw, Rat(60, 100)) THEN Rat(60, 100)
            ELSE raw
    ELSE IF type = "STRUCTURAL_STEEL" \/ type = "NITRIDING_STEEL" THEN
        LET raw == Rat(100000 - 23 * Log10Ratio(dd, 100), 100000)
        IN  IF RLt(RInt(1), raw) THEN RInt(1)
            ELSE raw
    ELSE old

CalcKt(type, dd, old) ==
    IF type = "HEAT_TREATABLE_STEEL" THEN
        LET raw == Rat(100000 - 41 * Log10Ratio(dd, 16), 100000)
        IN  IF RLt(RInt(1), raw) THEN RInt(1)
            ELSE IF RLt(raw, Rat(60, 100)) THEN Rat(60, 100)
            ELSE raw
    ELSE IF type = "STRUCTURAL_STEEL" \/ type = "NITRIDING_STEEL" THEN
        LET raw == Rat(100000 - 23 * Log10Ratio(dd, 100), 100000)
        IN  IF RLt(RInt(1), raw) THEN RInt(1)
            ELSE IF RLt(raw, Rat(89, 100)) THEN Rat(89, 100)
            ELSE raw
    ELSE old

(* ------------------------- diameter estimate --------------------------- *)

\* the smallest whole number c >= from with c * c >= q
RECURSIVE CeilSqrtFrom(_, _)
CeilSqrtFrom(q, from) ==
    IF RLeq(q, RInt(from * from)) THEN from ELSE CeilSqrtFrom(q, from + 1)

\* Calculation._calc_d_temp, rounded up to whole millimetres.  The diameter
\* column holds whole numbers, so looking up the rounded value gives the
\* same row as looking up d_temp itself.
CalcDTemp(kk, KA, F, SS, l0, ys) ==
    LET q == RMul(RMul(kk, kk),
                  RDiv(RMul(RMul(KA, RInt(F)), SS), RMul(l0, RInt(ys))))
    IN  CeilSqrtFrom(q, 0)

(* ---------------------------- the worksheet ---------------------------- *)

SetMax(T) == CHOOSE x \in T : \A y \in T : y <= x
SetMin(T) == CHOOSE x \in T : \A y \in T : x <= y

\* cell A10 as a function of cell A3: the smallest diameter of the column
\* that is >= A3; past the end of the column the last row is returned
NextStandardDiameter(x) ==
    IF \E s \in StdDiameters : s >= x
    THEN SetMin({s \in StdDiameters : s >= x})
    ELSE SetMax(StdDiameters)

\* the lengths listed in the worksheet
StdLengths == {8, 14, 16, 28, 35, 45}

\* cell O10 as a function of cells B3, E3, C3, D3 and A7: the length asked
\* for is the trial length of A7, or the grip t_r + n * t_f while A7 is
\* blank; O10 shows that length when the worksheet lists it and 0 when not
StandardLength(std, nn, tr, tf, trial) ==
    LET asked == IF trial = 0 THEN tr + nn * tf ELSE trial
    IN  IF asked \in StdLengths THEN asked ELSE 0

\* the cell of a column in row 10: the entry of that column in the row of
\* the diameter shown in A10; a cell without an entry yields None
None == "None"

\* cells of the dimension table that hold no entry
BlankCells == {<<"C", 8>>, <<"D", 8>>, <<"N", 20>>}

SubDimension(column, dia) ==
    IF <<column, dia>> \in BlankCells THEN <<None, dia>> ELSE <<column, dia>>

(* --------------------------- stress formulas --------------------------- *)

\* sigma_max, tau_max and p_max: k_t * yield stress * load factor
Allowed(kt, ys, lf) == RMul(RMul(kt, RInt(ys)), lf)

\* sigma = (K_A * M_b * 32) / (pi * d^3)
Sigma(KA, Mb, dd) ==
    RDiv(RMul(RMul(KA, Mb), RInt(32)), RMul(Pi, RInt(dd * dd * dd)))

\* tau = 4 / 3 * (K_A * F_r) / (pi * (d^2 / 4) * 2)
Tau(KA, F, dd) ==
    RDiv(RMul(Rat(4, 3), RMul(KA, RInt(F))),
         RMul(RMul(Pi, Rat(dd * dd, 4)), RInt(2)))

\* p_f = (K_A * F_r) / (d * n * t_f)
PFork(KA, F, dd, nn, tf) == RDiv(RMul(KA, RInt(F)), RInt(dd * nn * tf))

\* p_r = (K_A * F_r) / (d * t_r)
PRod(KA, F, dd, tr) == RDiv(RMul(KA, RInt(F)), RInt(dd * tr))

\* sigma_max / S <= sigma
BendingFails(sigma_max, SS, sigma) == RLeq(RDiv(sigma_max, SS), sigma)

\* tau_max / S <= tau
ShearFails_C1Mutant(tau_max, SS, tau) == RLeq(tau_max, tau)

ShearFails(tau_max, SS, tau) == RLeq(RDiv(tau_max, SS), tau)

\* p_max / S <= p_f and p_max * S <= p_r
PressureFails_C5Mutant(p_max, SS, p_f, p_r) ==
    RLeq(RDiv(p_max, SS), p_f) \/ RLeq(RMul(p_max, SS), p_r)

PressureFails(p_max, SS, p_f, p_r) ==
    RLeq(RDiv(p_max, SS), p_f) /\ RLeq(RMul(p_max, SS), p_r)

\* d += 1: the value written to A3 after a failed check
BumpRequest_C3Mutant(dd) == dd

BumpRequest(dd) == dd + 1

\* return self._check(d, yieldstress_min): where the new pass starts
Restart_C2Mutant == "bending"

Restart == "check_kt"

\* list.insert(i, x) with a 0-based index i; past the end it appends
Insert_C25Mutant(seq, i, x) == Append(seq, x)

Insert(seq, i, x) ==
    IF i >= Len(seq) THEN Append(seq, x)
    ELSE SubSeq(seq, 1, i) \o <<x>> \o SubSeq(seq, i + 1, Len(seq))

\* Bolt.set_length: the cell that receives t_r
RodThicknessCell_C14Mutant == "A3"

RodThicknessCell == "C3"

\* BoltDIN1445.__post_init__ and BoltISO2340.__post_init__: _standard
Standards == {"DIN 1445", "ISO 2340"}

\* BoltDIN1445.set_dimensions: the fields and the columns they are read
\* from; _chamfer_height is assigned from B10 and again from H10
SetDimensionsDIN1445(dia) ==
    [chamfer_height |-> SubDimension("H", dia),
     head_diameter |-> SubDimension("E", dia),
     head_thickness |-> SubDimension("F", dia),
     radius |-> SubDimension("G", dia),
     wrench_size |-> SubDimension("I", dia),
     thread_length |-> SubDimension("J", dia),
     thread_diameter |-> SubDimension("K", dia),
     undercut_diameter |-> SubDimension("L", dia),
     undercut_length |-> SubDimension("M", dia),
     undercut_radius |-> SubDimension("N", dia)]

\* BoltISO2340.set_dimensions
SetDimensionsISO2340(dia) ==
    [chamfer_height_30 |-> SubDimension("B", dia),
     hole_diameter |-> SubDimension("C", dia),
     hole_dist |-> SubDimension("D", dia)]

(* ------------------------------ materials ------------------------------ *)

\* mat_to_file and mats_from_file: file.read(1024)
SniffSize == 1024

\* the text layer of open() fetches the file in chunks of this many bytes
ChunkSize == 8192

\* Material.__slots__
Slots == <<"name", "matnr", "density", "tensilestrength", "yieldstress",
           "youngsmodulus", "type">>

Ch(s, j) == SubSeq(s, j, j)
Positions(s, c) == {j \in 1 .. Len(s) : Ch(s, j) = c}
Quote == "\""
DigitChars == "0123456789"
Digits == {Ch(DigitChars, j) : j \in 1 .. 10}
LetterChars == "ABCDEFGHIJKLMNOPQRSTUVWXYZabcdefghijklmnopqrstuvwxyz_"
Letters == {Ch(LetterChars, j) : j \in 1 .. Len(LetterChars)}

\* the elements of a set T of integers of lo .. hi in increasing order
RECURSIVE SortIn(_, _, _)
SortIn(T, lo, hi) ==
    IF T = {} THEN <<>>
    ELSE IF lo = hi THEN <<lo>>
    ELSE LET mid == (lo + hi) \div 2
         IN  SortIn({x \in T : x <= mid}, lo, mid)
                 \o SortIn({x \in T : x > mid}, mid + 1, hi)

\* the elements of a set T of positions 1 .. hi in increasing order
Sorted(T, hi) == SortIn(T, 1, hi)

\* numbers: an int, a float (whole part and decimals), or float("inf")
IntNum(w) == [kind |-> "int", whole |-> w, frac |-> ""]
FloatNum(w) == [kind |-> "float", whole |-> w, frac |-> ""]
Inf == [kind |-> "inf", whole |-> 0, frac |-> ""]

\* a == b for two numbers: 490 == 490.0
NumEq(a, b) ==
    /\ (a.kind = "inf") = (b.kind = "inf")
    /\ a.kind # "inf" => a.whole = b.whole /\ a.frac = b.frac

RECURSIVE IntToStr(_)
IntToStr(w) ==
    IF w < 10 THEN Ch(DigitChars, w + 1)
    ELSE IntToStr(w \div 10) \o Ch(DigitChars, (w % 10) + 1)

RECURSIVE StrToInt(_)
StrToInt(t) ==
    IF Len(t) = 0 THEN 0
    ELSE 10 * StrToInt(SubSeq(t, 1, Len(t) - 1))
         + (CHOOSE v \in 0 .. 9 : Ch(DigitChars, v + 1) = Ch(t, Len(t)))

RECURSIVE StripZeros(_)
StripZeros(t) ==
    IF Len(t) > 0 /\ Ch(t, Len(t)) = "0"
    THEN StripZeros(SubSeq(t, 1, Len(t) - 1))
    ELSE t

\* str(x) of a number, as csv.writer writes it
NumToStr(v) ==
    IF v.kind = "inf" THEN "inf"
    ELSE IF v.kind = "int" THEN IntToStr(v.whole)
    ELSE IntToStr(v.whole) \o "." \o (IF v.frac = "" THEN "0" ELSE v.frac)

AllDigits(t) == \A j \in 1 .. Len(t) : Ch(t, j) \in Digits

\* eval(t) of a cell: an int or float literal gives the number, a name
\* that is not defined gives NameError, anything else SyntaxError
EvalNum(t) ==
    LET dots == Positions(t, ".")
        dot == CHOOSE j \in dots : TRUE
        a == SubSeq(t, 1, dot - 1)
        b == SubSeq(t, dot + 1, Len(t))
    IN  IF Len(t) > 0 /\ AllDigits(t)
        THEN IF Ch(t, 1) = "0" /\ StrToInt(t) # 0
             THEN [error |-> "SyntaxError"]
             ELSE [error |-> "", value |-> IntNum(StrToInt(t))]
        ELSE IF Cardinality(dots) = 1 /\ AllDigits(a) /\ AllDigits(b)
                /\ Len(t) > 1
        THEN [error |-> "",
              value |-> [kind |-> "float", whole |-> StrToInt(a),
                         frac |-> StripZeros(b)]]
        ELSE IF Len(t) > 0 /\ Ch(t, 1) \in Letters
                /\ \A j \in 1 .. Len(t) : Ch(t, j) \in Letters \cup Digits
        THEN [error |-> "NameError"]
        ELSE [error |-> "SyntaxError"]

\* MaterialType[t.split(".")[1]]
MapType(t) ==
    LET dots == Sorted(Positions(t, "."), Len(t))
        stop == IF Len(dots) >= 2 THEN dots[2] - 1 ELSE Len(t)
        member == SubSeq(t, dots[1] + 1, stop)
    IN  IF Len(dots) = 0 THEN [error |-> "IndexError"]
        ELSE IF member \in MaterialTypes
        THEN [error |-> "", value |-> member]
        ELSE [error |-> "KeyError"]

\* csv.Sniffer().sniff(sample): the delimiter is the candidate that occurs
\* most; quotes are doubled only when the sample shows doubled quotes
Sniff(sample) ==
    LET commas == Cardinality(Positions(sample, ","))
        semis == Cardinality(Positions(sample, ";"))
        quotes == Positions(sample, Quote)
    IN  IF commas = 0 /\ semis = 0 THEN [error |-> "csv.Error"]
        ELSE [error |-> "",
              delimiter |-> IF commas >= semis THEN "," ELSE ";",
              doublequote |-> \E j \in quotes : j + 1 \in quotes]

RECURSIVE DoubleQuotes(_)
DoubleQuotes(t) ==
    IF Len(t) = 0 THEN ""
    ELSE (IF Ch(t, 1) = Quote THEN Quote \o Quote ELSE Ch(t, 1))
         \o DoubleQuotes(SubSeq(t, 2, Len(t)))

\* csv.writer with QUOTE_MINIMAL: a field with the delimiter or a line
\* break is quoted; a quote in a field is doubled, or is an error when the
\* dialect neither doubles quotes nor has an escape character
FieldText(f, dialect) ==
    IF Positions(f, Quote) # {}
    THEN IF dialect.doublequote
         THEN [error |-> "", text |-> Quote \o DoubleQuotes(f) \o Quote]
         ELSE [error |-> "csv.Error"]
    ELSE IF \E c \in {dialect.delimiter, "\r", "\n"} : Positions(f, c) # {}
    THEN [error |-> "", text |-> Quote \o f \o Quote]
    ELSE [error |-> "", text |-> f]

\* asdict(mat) with str() of every value, in the order of __slots__
FieldsOf(m) ==
    <<m.name, m.matnr, NumToStr(m.density), NumToStr(m.tensilestrength),
      NumToStr(m.yieldstress), NumToStr(m.youngsmodulus),
      "MaterialType." \o m.type>>

\* DictWriter.writerow: the row text with the line terminator "\r\n"
RowText(m, dialect) ==
    LET fs == [j \in 1 .. 7 |-> FieldText(FieldsOf(m)[j], dialect)]
        dl == dialect.delimiter
    IN  IF \E j \in 1 .. 7 : fs[j].error # "" THEN [error |-> "csv.Error"]
        ELSE [error |-> "",
              text |-> fs[1].text \o dl \o fs[2].text \o dl \o fs[3].text
                       \o dl \o fs[4].text \o dl \o fs[5].text \o dl
                       \o fs[6].text \o dl \o fs[7].text \o "\r\n"]

\* where a write lands after read(SniffSize) on a file opened with "r+":
\* behind the chunks fetched for the read, or at the end of a shorter file
WritePos(text) ==
    LET fetched == ((SniffSize + ChunkSize - 1) \div ChunkSize) * ChunkSize
    IN  IF Len(text) <= fetched THEN Len(text) ELSE fetched

\* write row at position pos of text, over what is there
WriteAt(text, pos, row) ==
    SubSeq(text, 1, pos) \o row
        \o SubSeq(text, pos + Len(row) + 1, Len(text))

\* the lines of a text without their terminators; a last line without
\* terminator counts when it is not empty
Lines(text) ==
    LET ends == Sorted(Positions(text, "\n"), Len(text))
        N == Len(ends)
        start(r) == IF r = 1 THEN 1 ELSE ends[r - 1] + 1
        stop(r) == IF ends[r] > 1 /\ Ch(text, ends[r] - 1) = "\r"
                   THEN ends[r] - 2 ELSE ends[r] - 1
        rest == IF N = 0 THEN text ELSE SubSeq(text, ends[N] + 1, Len(text))
    IN  [r \in 1 .. N |-> SubSeq(text, start(r), stop(r))]
            \o (IF rest = "" THEN <<>> ELSE <<rest>>)

\* csv.reader on one line: split at the delimiters outside quotes and take
\* the quotes off a quoted field
ParseLine(line, dialect) ==
    LET quotes == Positions(line, Quote)
        seps == Sorted({j \in Positions(line, dialect.delimiter) :
                          Cardinality({q \in quotes : q < j}) % 2 = 0},
                       Len(line))
        N == Len(seps)
        raw(r) == SubSeq(line, IF r = 1 THEN 1 ELSE seps[r - 1] + 1,
                         IF r = N + 1 THEN Len(line) ELSE seps[r] - 1)
        unquoted(f) == IF Len(f) >= 2 /\ Ch(f, 1) = Quote
                          /\ Ch(f, Len(f)) = Quote
                       THEN SubSeq(f, 2, Len(f) - 1) ELSE f
    IN  [r \in 1 .. N + 1 |-> unquoted(raw(r))]

\* complex(t) succeeds: t is written as a number
IsComplex(t) ==
    LET dots == Positions(t, ".")
    IN  \/ t \in {"inf", "nan"}
        \/ /\ Len(t) > Cardinality(dots) /\ Cardinality(dots) <= 1
           /\ \A j \in 1 .. Len(t) : Ch(t, j) \in Digits \cup {"."}

\* csv.Sniffer().has_header(sample): every column whose cells in the rows
\* after the first are all numbers, or all of one length, votes for a
\* header when the first row's cell is no number, or not of that length;
\* a column without cells votes for a header
HasHeader(sample, dialect) ==
    LET ls == Lines(sample)
        header == ParseLine(ls[1], dialect)
        last == IF Len(ls) < 22 THEN Len(ls) ELSE 22
        rows == {r \in 2 .. last :
                   Len(ParseLine(ls[r], dialect)) = Len(header)}
        typeOf(cell) == IF IsComplex(cell) THEN -1 ELSE Len(cell)
        types(c) == {typeOf(ParseLine(ls[r], dialect)[c]) : r \in rows}
        vote(c) == IF types(c) = {} THEN 1
                   ELSE IF Cardinality(types(c)) > 1 THEN 0
                   ELSE IF types(c) = {-1}
                   THEN (IF IsComplex(header[c]) THEN -1 ELSE 1)
                   ELSE IF types(c) = {Len(header[c])} THEN -1
                   ELSE 1
        columns == 1 .. Len(header)
    IN  /\ Len(ls) >= 1
        /\ Cardinality({c \in columns : vote(c) = 1})
               > Cardinality({c \in columns : vote(c) = -1})

\* the body of the loop of mats_from_file for one row of the DictReader:
\* the four eval calls, the type, the constructor; the first error ends it,
\* a KeyError becomes MaterialTypeError(r["name"], r["type"])
RowOutcome(header, fields) ==
    LET has(key) == \E j \in 1 .. Len(header) : header[j] = key
        col(key) == CHOOSE j \in 1 .. Len(header) : header[j] = key
        none(key) == col(key) > Len(fields)
        cell(key) == fields[col(key)]
        number(key) == IF ~has(key) THEN "KeyError"
                       ELSE IF none(key) THEN "TypeError"
                       ELSE EvalNum(cell(key)).error
        type == IF ~has("type") THEN "KeyError"
                ELSE IF none("type") THEN "AttributeError"
                ELSE MapType(cell("type")).error
        construct == IF Len(fields) > Len(header)
                        \/ {header[j] : j \in 1 .. Len(header)}
                             # {Slots[j] : j \in 1 .. 7}
                     THEN "TypeError" ELSE ""
        steps == <<number("density"), number("tensilestrength"),
                   number("yieldstress"), number("youngsmodulus"), type,
                   construct>>
        failed == {j \in 1 .. 6 : steps[j] # ""}
        first == steps[CHOOSE j \in failed : \A x \in failed : j <= x]
        text(key) == IF none(key) THEN "" ELSE cell(key)
    IN  IF failed # {}
        THEN [error |-> IF first # "KeyError" THEN first
                        ELSE IF has("name") /\ has("type")
                        THEN "MaterialTypeError" ELSE "KeyError"]
        ELSE [error |-> "",
              value |-> [name |-> text("name"), matnr |-> text("matnr"),
                         density |-> EvalNum(cell("density")).value,
                         tensilestrength |->
                             EvalNum(cell("tensilestrength")).value,
                         yieldstress |-> EvalNum(cell("yieldstress")).value,
                         youngsmodulus |->
                             EvalNum(cell("youngsmodulus")).value,
                         type |-> MapType(cell("type")).value]]

\* a path with a file of the given text, and a path with no file
FileWith(text) == [exists |-> TRUE, text |-> text]
NoFile == [exists |-> FALSE, text |-> ""]

\* Material.mats_from_file: the error raised, or the list returned
MatsFromFile(file) ==
    LET sample == SubSeq(file.text, 1, IF Len(file.text) < SniffSize
                                       THEN Len(file.text)
                                       ELSE SniffSize)
        dialect == Sniff(sample)
        ls == Lines(file.text)
        header == ParseLine(ls[1], dialect)
        rows == {r \in 2 .. Len(ls) : ls[r] # ""}
        outcome == [r \in rows |-> RowOutcome(header, ParseLine(ls[r], dialect))]
        failed == {r \in rows : outcome[r].error # ""}
        order == Sorted(rows, Len(ls))
    IN  IF ~file.exists
        THEN [error |-> "MaterialFileNotFoundError", mats |-> <<>>]
        ELSE IF dialect.error # ""
        THEN [error |-> dialect.error, mats |-> <<>>]
        ELSE IF ~HasHeader(sample, dialect)
        THEN [error |-> "MaterialFileError", mats |-> <<>>]
        ELSE IF failed # {}
        THEN [error |-> outcome[CHOOSE r \in failed :
                                    \A x \in failed : r <= x].error,
              mats |-> <<>>]
        ELSE [error |-> "",
              mats |-> [j \in 1 .. Len(order) |-> outcome[order[j]].value]]

\* Material.mat_to_file: the error raised and the file afterwards
MatToFile(file, m) ==
    LET sample == SubSeq(file.text, 1, IF Len(file.text) < SniffSize
                                       THEN Len(file.text)
                                       ELSE SniffSize)
        dialect == Sniff(sample)
        row == RowText(m, dialect)
    IN  IF ~file.exists
        THEN [error |-> "MaterialFileNotFoundError", file |-> file]
        ELSE IF dialect.error # ""
        THEN [error |-> dialect.error, file |-> file]
        ELSE IF row.error # ""
        THEN [error |-> row.error, file |-> file]
        ELSE [error |-> "",
              file |-> FileWith(WriteAt(file.text, WritePos(file.text),
                                       row.text))]

\* isinstance(self.type, MaterialType)
IsMaterialType_C20Mutant(type) == TRUE

IsMaterialType(type) == type.kind = "member"

\* @dataclass(frozen=True)
Frozen == TRUE

(* ------------------------------- state --------------------------------- *)

VARIABLES
    pc,               \* position of the sizing run
    l_type, case,     \* Calculation._l_type, _case
    F_in,             \* the resulting force handed to the constructor
    F_r, t_r, t_f, n, \* Calculation._F_r, _t_r, _t_f, _n
    K_A, S,           \* Calculation._K_A, _S
    mat_bolt,         \* Calculation._bolt.material
    mat_rod, mat_fork,\* Calculation._mat_rod, _mat_fork
    l, M_b, k, k_t,   \* Calculation._l, _M_b, _k, _k_t
    stresses,         \* Calculation._stresses
    yieldstress_min,  \* local of main, parameter of _check
    d,                \* parameter d of the running _check call
    depth,            \* number of nested _check calls
    A3, A10,          \* worksheet cells: requested and standardized diameter
    bolt_diameter,    \* Bolt.diameter: <<>> while unset, else <<value>>
    error,            \* the exception that ended the run, "" if none
    standard,         \* Bolt._standard
    B3, C3, D3, E3,   \* worksheet cells: standard, t_r, t_f, n
    A7, O10,          \* worksheet cells: trial length, standardized length
    i,                \* parameter i of the running set_length call
    bolt_length,      \* Bolt.length: <<>> while unset, else <<value>>
    bolt_dims,        \* the fields set_dimensions assigns, <<>> while unset
    excel_running,    \* an Excel application is running
    wb_open,          \* the workbook file itself is open in that Excel
    was_running,      \* Connector._was_running
    was_opened,       \* Connector._was_opened
    first_done,       \* history: inputs and result of the first finished run
    sheets,           \* two program instances: the worksheets they work with
    procs,            \* two program instances: the state of their runs
    mat_file,         \* the material file at the path
    mat_prev,         \* history: the material file before the last save
    mat_obj,          \* the Material the program holds, <<>> if none
    mat_arg,          \* the type argument of the constructor call just made
    mat_list,         \* the list the last mats_from_file returned
    mat_error,        \* the exception the last material operation raised
    mat_saved,        \* history: the Material of the last save, <<>> if none
    mat_saves,        \* number of mat_to_file calls so far
    mat_op,           \* the last material operation
    form,             \* BoltISO2340.form, "" for a bolt without forms
    bolt_name,        \* Bolt._name
    cad,              \* the dict the bolt's cad_dict returned, <<>> if none
    report,           \* the dict Calculation.report_dict returned
    rep_files,        \* output folder: the report each file name holds
    rep_open,         \* the report files open in a viewer
    rep_saves,        \* number of _save_report calls so far
    rep_out,          \* the file the last _save_report wrote, <<>> if none
    rep_error,        \* the exception the last _save_report raised
    materials,        \* MainWindow._materials
    mat_cb,           \* MainWindow._mat_cb
    mat_nr_cb,        \* MainWindow._mat_nr_cb
    mat_view,         \* MainWindow._mat_IntVar: 1 names, 2 numbers
    cb_values,        \* the values of the combobox of the bolt's material
    cb_text,          \* the text that combobox shows
    gui_pc,           \* where the main window is: new, main, dialog, ...
    gui_op,           \* the last thing the window or the dialog did
    gui_error,        \* the exception of the last import or add, "" if none
    dlg,              \* the texts the last _add found in the dialog
    adds,             \* number of _add calls so far
    gui_ops           \* number of things the user has done so far

\* the bolt's form and name and the dicts made after a run
infovars == <<form, bolt_name, cad, report>>

\* what the handlers next to the sizing run work with
\* the report files of the output folder
repvars == <<rep_files, rep_open, rep_saves, rep_out, rep_error>>

\* the main window's materials and the Add Material dialog
catvars == <<materials, mat_cb, mat_nr_cb, mat_view, cb_values, cb_text,
             gui_pc, gui_op, gui_error, dlg, adds, gui_ops>>

guivars == <<infovars, repvars, catvars>>

vars == <<pc, l_type, case, F_in, F_r, t_r, t_f, n, K_A, S, mat_bolt,
          mat_rod, mat_fork, l, M_b, k, k_t, stresses, yieldstress_min,
          d, depth, A3, A10, bolt_diameter, error, standard, B3, C3, D3,
          E3, A7, O10, i, bolt_length, bolt_dims, excel_running, wb_open,
          was_running, was_opened, first_done, sheets, procs, mat_file,
          mat_prev, mat_obj, mat_arg, mat_list, mat_error, mat_saved,
          mat_saves, mat_op, guivars>>

\* the material file and the Material objects
matvars == <<mat_file, mat_prev, mat_obj, mat_arg, mat_list, mat_error,
             mat_saved, mat_saves, mat_op>>

\* the sizing runs: one run, and two instances side by side
runvars == <<pc, l_type, case, F_in, F_r, t_r, t_f, n, K_A, S, mat_bolt,
             mat_rod, mat_fork, l, M_b, k, k_t, stresses, yieldstress_min,
             d, depth, A3, A10, bolt_diameter, error, standard, B3, C3, D3,
             E3, A7, O10, i, bolt_length, bolt_dims, excel_running, wb_open,
             was_running, was_opened, first_done, sheets, procs>>

\* everything but the material file and the Material objects
nonmat == <<runvars, guivars>>

\* what the checks of a candidate diameter leave alone
tail == <<standard, B3, C3, D3, E3, A7, O10, i, bolt_length, bolt_dims,
          excel_running, wb_open, was_running, was_opened, first_done,
          sheets, procs, matvars, guivars>>

\* the state of the two program instances that run side by side
conc == <<sheets, procs>>

\* the state of the single run, which the two instances leave alone
solo == <<pc, l_type, case, F_in, F_r, t_r, t_f, n, K_A, S, mat_bolt,
          mat_rod, mat_fork, l, M_b, k, k_t, stresses, yieldstress_min,
          d, depth, A3, A10, bolt_diameter, error, standard, B3, C3, D3,
          E3, A7, O10, i, bolt_length, bolt_dims, was_running, was_opened,
          first_done, matvars, guivars>>

\* the cells set_length works with
lengthCells == <<B3, C3, D3, E3, A7, O10>>

inputs == <<l_type, case, F_in, F_r, t_r, t_f, n, K_A, S, mat_bolt,
            mat_rod, mat_fork, l, M_b, k>>

\* reports saved in a row, and the largest counter of a report file name
MaxReports == 3
MaxCounter == 2

\* the counters of the report file names of one bolt name; 0 stands for
\* the name without a counter
Counters == 0 .. MaxCounter

NoMaterial == [type |-> "", yieldstress |-> 0]

\* the program instances that run side by side
Procs == {1, 2}

\* the input cells of a worksheet made from the workbook file
BlankSheet == [A3 |-> 0, B3 |-> "", C3 |-> 0, D3 |-> 0, E3 |-> 0, A7 |-> 0]

\* an instance whose user has not pressed Calculate yet
NewProc ==
    [pc |-> "new", inp |-> <<>>, ws |-> 0, was_opened |-> FALSE,
     conn |-> "none", request |-> 0, d |-> 0, depth |-> 0, i |-> 0,
     diameter |-> <<>>,
     length |-> <<>>, dims |-> <<>>, error |-> ""]

\* nothing constructed yet; the worksheet shows its first row
Init ==
    /\ pc = "idle"
    /\ l_type = "" /\ case = ""
    /\ F_in = 0 /\ F_r = 0 /\ t_r = 0 /\ t_f = 0 /\ n = 0
    /\ K_A = RInt(0) /\ S = RInt(0)
    /\ mat_bolt = NoMaterial /\ mat_rod = NoMaterial /\ mat_fork = NoMaterial
    /\ l = <<>> /\ M_b = RInt(0) /\ k = RInt(0) /\ k_t = RInt(0)
    /\ stresses = <<>>
    /\ yieldstress_min = 0
    /\ d = 0 /\ depth = 0
    /\ A3 = 0 /\ A10 = NextStandardDiameter(0)
    /\ bolt_diameter = <<>>
    /\ error = ""
    /\ standard = ""
    /\ B3 = "" /\ C3 = 0 /\ D3 = 0 /\ E3 = 0 /\ A7 = 0
    /\ O10 = StandardLength("", 0, 0, 0, 0)
    /\ i = 0
    /\ bolt_length = <<>> /\ bolt_dims = <<>>
    /\ excel_running \in BOOLEAN
    /\ wb_open \in {o \in BOOLEAN : o => excel_running}
    /\ was_running = FALSE /\ was_opened = FALSE
    /\ first_done = <<>>
    /\ sheets = [w \in 0 .. 2 |-> BlankSheet]
    /\ procs = [p \in Procs |-> NewProc]
    /\ mat_file = NoFile /\ mat_prev = NoFile
    /\ mat_obj = <<>> /\ mat_arg = <<>> /\ mat_list = <<>>
    /\ mat_error = "" /\ mat_saved = <<>> /\ mat_saves = 0 /\ mat_op = ""
    /\ form = "" /\ bolt_name = "" /\ cad = <<>> /\ report = <<>>
    /\ rep_files = [c \in Counters |-> 0] /\ rep_open = {}
    /\ rep_saves = 0 /\ rep_out = <<>> /\ rep_error = ""
    /\ materials = <<>> /\ mat_cb = <<>> /\ mat_nr_cb = <<>>
    /\ mat_view = 1 /\ cb_values = <<>> /\ cb_text = ""
    /\ gui_pc = "new" /\ gui_op = "" /\ gui_error = ""
    /\ dlg = <<>> /\ adds = 0 /\ gui_ops = 0

(* --------------------------- the sizing run ---------------------------- *)

\* the bolt classes' constructors: a bolt of a standard, not yet sized
NewBolt(std) ==
    /\ standard' = std
    /\ bolt_diameter' = <<>>
    /\ bolt_length' = <<>>
    /\ bolt_dims' = <<>>

\* Connector.connect_to_excel: attach to the workbook when a running Excel
\* has it open, else add a workbook made from the file at the path.
\* Attaching assigns Application.ActiveWorkbook, which Excel documents as
\* read-only: the assignment either goes through or raises AttributeError
ConnectToExcel(path_ok, attach_ok) ==
    /\ was_running' = excel_running
    /\ wb_open' = wb_open
    /\ IF excel_running /\ wb_open
       THEN IF attach_ok
            THEN /\ was_opened' = TRUE
                 /\ pc' = "main" /\ error' = ""
                 /\ UNCHANGED <<excel_running, A3, A10, lengthCells>>
            ELSE /\ was_opened' = FALSE
                 /\ pc' = "raised" /\ error' = "AttributeError"
                 /\ UNCHANGED <<excel_running, A3, A10, lengthCells>>
       ELSE /\ was_opened' = FALSE
            /\ IF path_ok
               THEN /\ pc' = "main" /\ error' = ""
                    /\ excel_running' = TRUE
                    /\ A3' = 0 /\ A10' = NextStandardDiameter(0)
                    /\ B3' = "" /\ C3' = 0 /\ D3' = 0 /\ E3' = 0 /\ A7' = 0
                    /\ O10' = StandardLength("", 0, 0, 0, 0)
               ELSE /\ pc' = "raised" /\ error' = "ExcelFileNotFoundError"
                    /\ UNCHANGED <<excel_running, A3, A10, lengthCells>>

\* Calculation.__post_init__
Construct(lt, cs, F, tr, tf, nn, KA, SS, mb, mr, mf, path_ok, attach_ok) ==
    /\ l_type' = lt /\ case' = cs /\ F_in' = F
    /\ t_r' = tr /\ t_f' = tf /\ n' = nn /\ K_A' = KA /\ S' = SS
    /\ mat_bolt' = mb /\ mat_rod' = mr /\ mat_fork' = mf
    /\ l' = CalcL(lt)
    /\ M_b' = CalcMb(cs, F, tr, tf, nn)[1]
    /\ k' = CalcMb(cs, F, tr, tf, nn)[2]
    /\ F_r' = IF F < 0 THEN F * (-1) ELSE F
    /\ k_t' = RInt(0)
    /\ stresses' = <<>>
    /\ ConnectToExcel(path_ok, attach_ok)
    /\ yieldstress_min' = 0 /\ d' = 0 /\ depth' = 0 /\ i' = 0
    /\ UNCHANGED <<first_done, conc, matvars>>

\* MainWindow._calc: a new bolt and a Calculation for it
PostInit ==
    /\ pc = "idle"
    /\ \E std \in Standards, lt \in LoadTypes, cs \in Cases, F \in Forces,
          tr \in RodThicknesses, tf \in ForkThicknesses, nn \in {1, 2},
          KA \in ApplicationFactors, SS \in SafetyFactors,
          mb \in Materials, mr \in Materials, mf \in Materials,
          path_ok \in BOOLEAN, attach_ok \in BOOLEAN :
        /\ NewBolt(std)
        /\ Construct(lt, cs, F, tr, tf, nn, KA, SS, mb, mr, mf, path_ok,
                     attach_ok)
    /\ UNCHANGED guivars

\* Calculation._get_diameter: write A3, read A10
GetDiameter(request) ==
    /\ A3' = request
    /\ A10' = NextStandardDiameter(request)

\* Calculation.main up to the call of _check
MainGetDiameter ==
    /\ pc = "main"
    /\ GetDiameter(CalcDTemp(k, K_A, F_r, S, l[1], mat_bolt.yieldstress))
    /\ yieldstress_min' = SetMin({mat_rod.yieldstress, mat_fork.yieldstress,
                                  mat_bolt.yieldstress})
    /\ d' = A10'
    /\ depth' = 1
    /\ pc' = "check_kt"
    /\ UNCHANGED <<inputs, k_t, stresses, bolt_diameter, error, tail>>

\* _check: self._calc_k_t(d)
CheckKt ==
    /\ pc = "check_kt"
    /\ k_t' = CalcKt(mat_bolt.type, d, k_t)
    /\ pc' = "bending"
    /\ UNCHANGED <<inputs, stresses, yieldstress_min, d, depth, A3, A10,
                   bolt_diameter, error, tail>>

\* _check after a failed check: d += 1, d = _get_diameter(d), and the
\* nested call of _check, which the interpreter refuses at its limit
Bump ==
    /\ GetDiameter(BumpRequest(d))
    /\ d' = A10'
    /\ IF depth < RecursionLimit
       THEN pc' = Restart /\ depth' = depth + 1 /\ error' = error
       ELSE pc' = "raised" /\ depth' = depth /\ error' = "RecursionError"

\* _check: the bending check
CheckBending ==
    /\ pc = "bending"
    /\ LET sigma_max == Allowed(k_t, mat_bolt.yieldstress, l[1])
           sigma == Sigma(K_A, M_b, d)
       IN  /\ stresses' = Insert(Insert(stresses, 0, sigma_max), 1, sigma)
           /\ IF BendingFails(sigma_max, S, sigma)
              THEN Bump
              ELSE pc' = "shear" /\ UNCHANGED <<d, depth, A3, A10, error>>
    /\ UNCHANGED <<inputs, k_t, yieldstress_min, bolt_diameter, tail>>

\* _check: the shear check
CheckShear ==
    /\ pc = "shear"
    /\ LET tau_max == Allowed(k_t, mat_bolt.yieldstress, l[2])
           tau == Tau(K_A, F_r, d)
       IN  /\ stresses' = Insert(Insert(stresses, 2, tau_max), 3, tau)
           /\ IF ShearFails(tau_max, S, tau)
              THEN Bump
              ELSE pc' = "pressure" /\ UNCHANGED <<d, depth, A3, A10, error>>
    /\ UNCHANGED <<inputs, k_t, yieldstress_min, bolt_diameter, tail>>

\* _check: the pressure check; passing it returns d to main
CheckPressure ==
    /\ pc = "pressure"
    /\ LET p_max == Allowed(k_t, yieldstress_min, l[3])
           p_f == PFork(K_A, F_r, d, n, t_f)
           p_r == PRod(K_A, F_r, d, t_r)
       IN  /\ stresses' = Insert(Insert(Insert(stresses, 4, p_max), 5, p_f),
                                 6, p_r)
           /\ IF PressureFails(p_max, S, p_f, p_r)
              THEN Bump
              ELSE pc' = "returned" /\ UNCHANGED <<d, depth, A3, A10, error>>
    /\ UNCHANGED <<inputs, k_t, yieldstress_min, bolt_diameter, tail>>

\* Calculation.main: self._bolt.diameter = d
MainSetDiameter ==
    /\ pc = "returned"
    /\ bolt_diameter' = <<d>>
    /\ pc' = "set_length"
    /\ UNCHANGED <<inputs, k_t, stresses, yieldstress_min, d, depth, A3, A10,
                   error, standard, lengthCells, i, bolt_length, bolt_dims,
                   excel_running, wb_open, was_running, was_opened,
                   first_done, conc, matvars, guivars>>

\* Bolt.set_length, one call: write B3, C3, D3 and E3, read O10; a length
\* of 0 writes the trial length to A7 and calls set_length again, which
\* the interpreter refuses at its limit
SetLength ==
    /\ pc = "set_length"
    /\ i' = i + 1
    /\ B3' = standard /\ D3' = t_f /\ E3' = n
    /\ IF RodThicknessCell = "C3"
       THEN C3' = t_r /\ UNCHANGED <<A3, A10>>
       ELSE A3' = t_r /\ A10' = NextStandardDiameter(t_r) /\ C3' = C3
    /\ LET length == StandardLength(B3', E3', C3', D3', A7)
           trial == t_r + (n * t_f) + (i + 1)
       IN  IF length = 0
           THEN /\ A7' = trial
                /\ O10' = StandardLength(B3', E3', C3', D3', trial)
                /\ bolt_length' = bolt_length
                /\ IF i + 1 < RecursionLimit
                   THEN pc' = "set_length" /\ error' = error
                   ELSE pc' = "raised" /\ error' = "RecursionError"
           ELSE /\ bolt_length' = <<length>>
                /\ O10' = length
                /\ pc' = "set_dimensions"
                /\ UNCHANGED <<A7, error>>
    /\ UNCHANGED <<inputs, k_t, stresses, yieldstress_min, d, depth,
                   bolt_diameter, standard, bolt_dims, excel_running, wb_open,
                   was_running, was_opened, first_done, conc, matvars, guivars>>

\* Calculation.main: self._bolt.set_dimensions(self._ws)
SetDimensions ==
    /\ pc = "set_dimensions"
    /\ bolt_dims' = IF standard = "DIN 1445"
                    THEN SetDimensionsDIN1445(A10)
                    ELSE SetDimensionsISO2340(A10)
    /\ pc' = "close"
    /\ UNCHANGED <<inputs, k_t, stresses, yieldstress_min, d, depth, A3, A10,
                   bolt_diameter, error, standard, lengthCells, i,
                   bolt_length, excel_running, wb_open, was_running,
                   was_opened, first_done, conc, matvars, guivars>>

\* the arguments of the bolt's and the Calculation's constructors
RunInputs ==
    <<standard, l_type, case, F_in, t_r, t_f, n, K_A, S, mat_bolt, mat_rod,
      mat_fork>>

\* Connector.close_excel: close the workbook without saving; quit Excel
\* unless the workbook was found open
CloseExcel ==
    /\ pc = "close"
    /\ wb_open' = FALSE
    /\ excel_running' = was_opened
    /\ pc' = "done"
    /\ first_done' = IF first_done = <<>>
                     THEN <<RunInputs, bolt_diameter[1], bolt_length[1]>>
                     ELSE first_done
    /\ UNCHANGED <<inputs, k_t, stresses, yieldstress_min, d, depth, A3, A10,
                   bolt_diameter, error, standard, lengthCells, i,
                   bolt_length, bolt_dims, was_running, was_opened, conc,
                   matvars, guivars>>

Next ==
    \/ PostInit
    \/ MainGetDiameter
    \/ CheckKt
    \/ CheckBending
    \/ CheckShear
    \/ CheckPressure
    \/ MainSetDiameter
    \/ SetLength
    \/ SetDimensions
    \/ CloseExcel

Spec == Init /\ [][Next]_vars

(* ------------------------ several runs in a row ------------------------ *)

\* inputs of the runs of a session
SessionForces == {2000, 5000}
SessionForkThicknesses == {12}
SessionMaterials == {[type |-> "STRUCTURAL_STEEL", yieldstress |-> 235]}

\* MainWindow._calc invoked again after a run has ended: a new bolt and a
\* new Calculation
CalcAgain ==
    /\ pc \in {"idle", "done", "raised"}
    /\ \E std \in Standards, F \in SessionForces, tr \in RodThicknesses,
          tf \in SessionForkThicknesses, nn \in {1, 2},
          KA \in ApplicationFactors, SS \in SafetyFactors,
          mb \in SessionMaterials,
          path_ok \in BOOLEAN, attach_ok \in BOOLEAN :
        /\ NewBolt(std)
        /\ Construct("static", "Case 1", F, tr, tf, nn, KA, SS, mb, mb, mb,
                     path_ok, attach_ok)
    /\ UNCHANGED guivars

\* Calculation(bolt, ...) for a bolt that an earlier run has worked on
ResizeBolt ==
    /\ pc \in {"done", "raised"}
    /\ standard # ""
    /\ \E F \in SessionForces, tr \in RodThicknesses,
          tf \in SessionForkThicknesses, nn \in {1, 2},
          KA \in ApplicationFactors, SS \in SafetyFactors,
          path_ok \in BOOLEAN, attach_ok \in BOOLEAN :
        Construct("static", "Case 1", F, tr, tf, nn, KA, SS, mat_bolt,
                  mat_bolt, mat_bolt, path_ok, attach_ok)
    /\ UNCHANGED <<standard, bolt_diameter, bolt_length, bolt_dims, guivars>>

NextSession ==
    \/ CalcAgain
    \/ ResizeBolt
    \/ MainGetDiameter
    \/ CheckKt
    \/ CheckBending
    \/ CheckShear
    \/ CheckPressure
    \/ MainSetDiameter
    \/ SetLength
    \/ SetDimensions
    \/ CloseExcel

SpecSession == Init /\ [][NextSession]_vars

(* ------------------- the dicts made after a run ------------------------ *)

\* the forms the main window passes to BoltISO2340
Forms == {"A", "B"}

\* the names entered for the bolt
BoltNames == {"Bolt 1"}

\* inputs of the runs whose dicts are made
InfoForces == {2000, 5000}
InfoForkThicknesses == {12}
InfoMaterials == {[type |-> "STRUCTURAL_STEEL", yieldstress |-> 235]}

\* MainWindow._calc up to the Calculation: a bolt of the standard chosen,
\* with the form the entry of the standard's combobox names
CalcInfo ==
    /\ pc = "idle"
    /\ \E std \in Standards, fm \in Forms, nm \in BoltNames, cs \in Cases,
          F \in InfoForces, tr \in RodThicknesses,
          tf \in InfoForkThicknesses, nn \in {1, 2},
          KA \in ApplicationFactors, SS \in SafetyFactors,
          mb \in InfoMaterials, path_ok \in BOOLEAN, attach_ok \in BOOLEAN :
        /\ NewBolt(std)
        /\ form' = IF std = "ISO 2340" THEN fm ELSE ""
        /\ bolt_name' = nm
        /\ Construct("static", cs, F, tr, tf, nn, KA, SS, mb, mb, mb,
                     path_ok, attach_ok)
    /\ UNCHANGED <<cad, report, repvars, catvars>>

\* Bolt.cad_dict
BoltCadDict ==
    [name |-> bolt_name, standard |-> standard, diameter |-> bolt_diameter[1],
     length |-> bolt_length[1]]

\* the dict d with the value x under the key key, as d[key] = x makes it
DictSet(dict, key, x) ==
    [f \in DOMAIN dict \cup {key} |-> IF f = key THEN x ELSE dict[f]]

\* BoltISO2340.cad_dict
CadDictISO2340_C23Mutant ==
    LET c1 == DictSet(BoltCadDict, "chamfer_height_30",
                      bolt_dims.chamfer_height_30)
        c2 == DictSet(c1, "hole_diameter", bolt_dims.hole_diameter)
        c3 == DictSet(c2, "hole_distance", bolt_dims.hole_dist)
    IN  DictSet(c3, "hole", TRUE)

CadDictISO2340 ==
    LET c1 == DictSet(BoltCadDict, "chamfer_height_30",
                      bolt_dims.chamfer_height_30)
        c2 == DictSet(c1, "hole_diameter", bolt_dims.hole_diameter)
        c3 == DictSet(c2, "hole_distance", bolt_dims.hole_dist)
    IN  IF form = "A" THEN DictSet(c3, "hole", FALSE)
        ELSE DictSet(c3, "hole", TRUE)

\* BoltDIN1445.cad_dict
CadDictDIN1445 ==
    LET keys == {"head_diameter", "head_thickness", "wrench_size", "radius",
                 "chamfer_height", "thread_diameter", "thread_length",
                 "undercut_diameter", "undercut_length", "undercut_radius"}
    IN  [f \in DOMAIN BoltCadDict \cup keys |->
            IF f \in keys THEN bolt_dims[f] ELSE BoltCadDict[f]]

\* SldWorksConnector.__init__ after the Info dialog asked for the CAD
\* model: self._bolt_dict = bolt.cad_dict()
CadDict ==
    /\ pc = "done" /\ cad = <<>> /\ report = <<>>
    /\ cad' = IF standard = "DIN 1445" THEN CadDictDIN1445 ELSE CadDictISO2340
    /\ UNCHANGED <<runvars, matvars, form, bolt_name, report, repvars, catvars>>

\* Calculation.report_dict: the entries whose values the method chooses;
\* the other entries are str() of the run's numbers
ReportDictOf(nn, lt, cs) ==
    LET r0 == [connection_type |-> "double shear", load_type |-> lt,
               clamping_case |-> "Case 1 (loose fit in rod and fork)"]
        r1 == IF nn = 1
              THEN [r0 EXCEPT !.connection_type = "single shear"]
              ELSE r0
    IN  IF cs = "Case 2"
        THEN [r1 EXCEPT !.clamping_case =
                  "Case 2 (loose fit in rod and oversized fit in fork)"]
        ELSE [r1 EXCEPT !.clamping_case =
                  "Case 3 (oversized fit in rod and loose fit in fork)"]

\* Report.__init__ after the Info dialog asked for the report:
\* self._calc_info = calc.report_dict()
ReportDict ==
    /\ pc = "done" /\ report = <<>>
    /\ report' = ReportDictOf(n, l_type, case)
    /\ UNCHANGED <<runvars, matvars, form, bolt_name, cad, repvars, catvars>>

NextInfo ==
    \/ CalcInfo
    \/ MainGetDiameter
    \/ CheckKt
    \/ CheckBending
    \/ CheckShear
    \/ CheckPressure
    \/ MainSetDiameter
    \/ SetLength
    \/ SetDimensions
    \/ CloseExcel
    \/ CadDict
    \/ ReportDict

SpecInfo == Init /\ [][NextInfo]_vars

(* --------------------------- saving reports ---------------------------- *)

\* FPDF.output: write the report to the file of counter c
Output(c, id) ==
    /\ rep_files' = [rep_files EXCEPT ![c] = id]
    /\ rep_out' = <<c>>

\* Report._save_report for the report of one bolt name: write the file
\* without a counter and open it; when that file is open in a viewer
\* (PermissionError) look at the name with counter 1, write it if no such
\* file exists, open the file without a counter and return; a folder that
\* does not exist ends in PathError
SaveReport ==
    /\ rep_saves < MaxReports
    /\ rep_saves' = rep_saves + 1
    /\ \E path_ok \in BOOLEAN, viewer_locks \in BOOLEAN :
        IF ~path_ok
        THEN /\ rep_error' = "PathError"
             /\ rep_out' = <<>>
             /\ UNCHANGED <<rep_files, rep_open>>
        ELSE IF 0 \notin rep_open
        THEN /\ Output(0, rep_saves')
             /\ rep_open' = IF viewer_locks THEN rep_open \cup {0}
                            ELSE rep_open
             /\ rep_error' = ""
        ELSE /\ IF rep_files[1] = 0
                THEN Output(1, rep_saves')
                ELSE /\ rep_out' = <<>>
                     /\ UNCHANGED rep_files
             /\ UNCHANGED rep_open
             /\ rep_error' = ""
    /\ UNCHANGED <<runvars, matvars, infovars, catvars>>

\* the user closes the viewer that shows a report
CloseViewer ==
    /\ \E c \in rep_open : rep_open' = rep_open \ {c}
    /\ UNCHANGED <<rep_files, rep_saves, rep_out, rep_error, runvars,
                   matvars, infovars, catvars>>

\* the user opens a report of the output folder in a viewer
OpenViewer ==
    /\ \E c \in Counters :
          /\ rep_files[c] # 0 /\ c \notin rep_open
          /\ rep_open' = rep_open \cup {c}
    /\ UNCHANGED <<rep_files, rep_saves, rep_out, rep_error, runvars,
                   matvars, infovars, catvars>>

\* the user deletes a report that no viewer shows
DeleteReport ==
    /\ \E c \in Counters :
          /\ rep_files[c] # 0 /\ c \notin rep_open
          /\ rep_files' = [rep_files EXCEPT ![c] = 0]
    /\ UNCHANGED <<rep_open, rep_saves, rep_out, rep_error, runvars,
                   matvars, infovars, catvars>>

NextReport ==
    \/ SaveReport
    \/ CloseViewer
    \/ OpenViewer
    \/ DeleteReport

SpecReport == Init /\ [][NextReport]_vars

(* ------------------- two instances of the program ---------------------- *)

\* what the users of the two instances enter
ConcInputs ==
    {[standard |-> "ISO 2340", l_type |-> "static", case |-> "Case 1",
      F |-> 2000, t_r |-> 2, t_f |-> 12, n |-> 1, K_A |-> <<5, 4>>,
      S |-> <<3, 2>>,
      mat |-> [type |-> "STRUCTURAL_STEEL", yieldstress |-> 235]],
     [standard |-> "DIN 1445", l_type |-> "static", case |-> "Case 1",
      F |-> 5000, t_r |-> 30, t_f |-> 2, n |-> 1, K_A |-> <<5, 4>>,
      S |-> <<3, 2>>,
      mat |-> [type |-> "HEAT_TREATABLE_STEEL", yieldstress |-> 490]]}

\* Calculation._calc_d_temp for the inputs r
DTempOf(r) ==
    CalcDTemp(CalcMb(r.case, r.F, r.t_r, r.t_f, r.n)[2], r.K_A,
              IF r.F < 0 THEN r.F * (-1) ELSE r.F, r.S, CalcL(r.l_type)[1],
              r.mat.yieldstress)

\* Calculation._check for the inputs r: one of the three checks asks for a
\* larger diameter than dd
CheckFails(r, dd) ==
    LET F == IF r.F < 0 THEN r.F * (-1) ELSE r.F
        lf == CalcL(r.l_type)
        Mb == CalcMb(r.case, r.F, r.t_r, r.t_f, r.n)[1]
        kt == CalcKt(r.mat.type, dd, RInt(0))
        ys == r.mat.yieldstress
    IN  \/ BendingFails(Allowed(kt, ys, lf[1]), r.S, Sigma(r.K_A, Mb, dd))
        \/ ShearFails(Allowed(kt, ys, lf[2]), r.S, Tau(r.K_A, F, dd))
        \/ PressureFails(Allowed(kt, ys, lf[3]), r.S,
                         PFork(r.K_A, F, dd, r.n, r.t_f),
                         PRod(r.K_A, F, dd, r.t_r))

\* a call into Excel by an instance whose workbook or Excel is gone
ComError(p) ==
    /\ procs' = [procs EXCEPT ![p].pc = "raised", ![p].error = "com_error"]
    /\ UNCHANGED <<sheets, excel_running, wb_open>>

\* the instances that lose their worksheet when p closes workbook w
Lost(p, w) ==
    [q \in Procs |->
        IF q # p /\ procs[q].conn = "ok" /\ (w = -1 \/ procs[q].ws = w)
        THEN [procs[q] EXCEPT !.conn = "lost"]
        ELSE procs[q]]

\* MainWindow._calc of instance p up to the end of __post_init__: attach
\* to the open workbook (sheet 0) or add a workbook of its own (sheet p)
ConcCalc(p) ==
    /\ procs[p].pc = "new"
    /\ \E r \in ConcInputs, attach_ok \in BOOLEAN :
        IF excel_running /\ wb_open
        THEN /\ procs' = [procs EXCEPT ![p] =
                    IF attach_ok
                    THEN [@ EXCEPT !.pc = "write_A3", !.inp = r, !.ws = 0,
                                   !.was_opened = TRUE, !.conn = "ok",
                                   !.request = DTempOf(r)]
                    ELSE [@ EXCEPT !.pc = "raised", !.inp = r,
                                   !.error = "AttributeError"]]
             /\ UNCHANGED <<sheets, excel_running, wb_open>>
        ELSE /\ procs' = [procs EXCEPT ![p] =
                    [@ EXCEPT !.pc = "write_A3", !.inp = r, !.ws = p,
                              !.conn = "ok", !.request = DTempOf(r)]]
             /\ sheets' = [sheets EXCEPT ![p] = BlankSheet]
             /\ excel_running' = TRUE
             /\ wb_open' = wb_open
    /\ UNCHANGED solo

\* _get_diameter: self._ws.Range("A3").Value = d_temp
ConcWriteA3(p) ==
    /\ procs[p].pc = "write_A3"
    /\ IF procs[p].conn = "lost"
       THEN ComError(p)
       ELSE /\ sheets' = [sheets EXCEPT ![procs[p].ws].A3 = procs[p].request]
            /\ procs' = [procs EXCEPT ![p].pc = "read_A10"]
            /\ UNCHANGED <<excel_running, wb_open>>
    /\ UNCHANGED solo

\* _get_diameter: d_std = self._ws.Range("A10").Value, then the checks of
\* _check on it: a failed check asks for d + 1, a passed pass returns d and
\* main assigns bolt.diameter
ConcReadA10(p) ==
    /\ procs[p].pc = "read_A10"
    /\ IF procs[p].conn = "lost"
       THEN ComError(p)
       ELSE /\ LET dd == NextStandardDiameter(sheets[procs[p].ws].A3)
               IN  procs' = [procs EXCEPT ![p] =
                     IF @.depth >= RecursionLimit
                     THEN [@ EXCEPT !.pc = "raised", !.d = dd,
                                    !.error = "RecursionError"]
                     ELSE IF CheckFails(@.inp, dd)
                     THEN [@ EXCEPT !.pc = "write_A3", !.d = dd,
                                    !.depth = @ + 1,
                                    !.request = BumpRequest(dd)]
                     ELSE [@ EXCEPT !.pc = "write_len", !.d = dd,
                                    !.depth = @ + 1, !.diameter = <<dd>>]]
            /\ UNCHANGED <<sheets, excel_running, wb_open>>
    /\ UNCHANGED solo

\* set_length: i += 1 and the writes of B3, C3, D3 and E3
ConcWriteLengthInputs(p) ==
    /\ procs[p].pc = "write_len"
    /\ IF procs[p].conn = "lost"
       THEN ComError(p)
       ELSE /\ sheets' = [sheets EXCEPT ![procs[p].ws] =
                    [@ EXCEPT !.B3 = procs[p].inp.standard,
                              !.C3 = procs[p].inp.t_r,
                              !.D3 = procs[p].inp.t_f,
                              !.E3 = procs[p].inp.n]]
            /\ procs' = [procs EXCEPT ![p].pc = "read_O10", ![p].i = @ + 1]
            /\ UNCHANGED <<excel_running, wb_open>>
    /\ UNCHANGED solo

\* set_length: length = ws.Range("O10").Value and the test for 0
ConcReadO10(p) ==
    /\ procs[p].pc = "read_O10"
    /\ IF procs[p].conn = "lost"
       THEN ComError(p)
       ELSE /\ LET sh == sheets[procs[p].ws]
                   length == StandardLength(sh.B3, sh.E3, sh.C3, sh.D3, sh.A7)
               IN  procs' = [procs EXCEPT ![p] =
                     IF length = 0
                     THEN [@ EXCEPT !.pc = "write_A7"]
                     ELSE [@ EXCEPT !.pc = "read_dims",
                                    !.length = <<length>>]]
            /\ UNCHANGED <<sheets, excel_running, wb_open>>
    /\ UNCHANGED solo

\* set_length: the write of the trial length and the nested call
ConcWriteA7(p) ==
    /\ procs[p].pc = "write_A7"
    /\ IF procs[p].conn = "lost"
       THEN ComError(p)
       ELSE /\ sheets' = [sheets EXCEPT ![procs[p].ws].A7 =
                    procs[p].inp.t_r + (procs[p].inp.n * procs[p].inp.t_f)
                        + procs[p].i]
            /\ procs' = [procs EXCEPT ![p] =
                    IF @.i < RecursionLimit
                    THEN [@ EXCEPT !.pc = "write_len"]
                    ELSE [@ EXCEPT !.pc = "raised",
                                   !.error = "RecursionError"]]
            /\ UNCHANGED <<excel_running, wb_open>>
    /\ UNCHANGED solo

\* set_dimensions: the reads of row 10
ConcSetDimensions(p) ==
    /\ procs[p].pc = "read_dims"
    /\ IF procs[p].conn = "lost"
       THEN ComError(p)
       ELSE /\ LET dia == NextStandardDiameter(sheets[procs[p].ws].A3)
               IN  procs' = [procs EXCEPT ![p].pc = "close", ![p].dims =
                     IF procs[p].inp.standard = "DIN 1445"
                     THEN SetDimensionsDIN1445(dia)
                     ELSE SetDimensionsISO2340(dia)]
            /\ UNCHANGED <<sheets, excel_running, wb_open>>
    /\ UNCHANGED solo

\* close_excel: close the workbook; quit Excel unless the workbook was
\* found open. Excel asks before it quits with changed workbooks of the
\* other instance open, so it may also stay
ConcClose(p) ==
    /\ procs[p].pc = "close"
    /\ IF procs[p].conn = "lost"
       THEN ComError(p)
       ELSE IF procs[p].was_opened
       THEN /\ procs' = [Lost(p, 0) EXCEPT ![p].pc = "done",
                                            ![p].conn = "none"]
            /\ wb_open' = FALSE
            /\ UNCHANGED <<sheets, excel_running>>
       ELSE \E quits \in BOOLEAN :
            IF quits \/ \A q \in Procs \ {p} : procs[q].conn # "ok"
            THEN /\ procs' = [Lost(p, -1) EXCEPT ![p].pc = "done",
                                                 ![p].conn = "none"]
                 /\ excel_running' = FALSE
                 /\ wb_open' = FALSE
                 /\ sheets' = sheets
            ELSE /\ procs' = [procs EXCEPT ![p].pc = "done",
                                           ![p].conn = "none"]
                 /\ UNCHANGED <<sheets, excel_running, wb_open>>
    /\ UNCHANGED solo

NextConc ==
    \E p \in Procs :
        \/ ConcCalc(p)
        \/ ConcWriteA3(p)
        \/ ConcReadA10(p)
        \/ ConcWriteLengthInputs(p)
        \/ ConcReadO10(p)
        \/ ConcWriteA7(p)
        \/ ConcSetDimensions(p)
        \/ ConcClose(p)

SpecConc == Init /\ [][NextConc]_vars

(* -------------------------- the material file -------------------------- *)

\* how many times a run of this part saves a material
MaxSaves == 1

\* the rows of the long material file
LongFileRows == 125

\* the rows of the material file that is longer than the sniffed sample
\* and shorter than a chunk
MidFileRows == 20

MatHeader(dl) ==
    "name" \o dl \o "matnr" \o dl \o "density" \o dl \o "tensilestrength"
        \o dl \o "yieldstress" \o dl \o "youngsmodulus" \o dl \o "type\r\n"

\* the row of the r-th material of a generated file
MatRow(r) ==
    "M" \o IntToStr(r)
        \o ",1.0038,7850.0,360.0,235.0,210000.0,MaterialType.STRUCTURAL_STEEL\r\n"

RECURSIVE Concat(_, _, _)
Concat(f, lo, hi) ==
    IF lo > hi THEN ""
    ELSE IF lo = hi THEN f[lo]
    ELSE Concat(f, lo, (lo + hi) \div 2)
             \o Concat(f, ((lo + hi) \div 2) + 1, hi)

\* a material file with r materials
MatFileOf(r) ==
    FileWith(MatHeader(",") \o Concat([j \in 1 .. r |-> MatRow(j)], 1, r))

\* the files a path can lead to: no file, an empty file, files of
\* materials of several lengths, a file with semicolons, and files with a
\* type cell that names no member, lacks the prefix or has another prefix
MatFiles ==
    {NoFile, FileWith(""), MatFileOf(0), MatFileOf(2), MatFileOf(MidFileRows),
     MatFileOf(LongFileRows),
     FileWith(MatHeader(";")
         \o "C45;1.0503;7850.0;700.0;490.0;210000.0;MaterialType.HEAT_TREATABLE_STEEL\r\n"),
     FileWith(MatHeader(",") \o MatRow(1)
         \o "Cu,2.0060,8930.0,200.0,40.0,120000.0,MaterialType.COPPER\r\n"),
     FileWith(MatHeader(",") \o MatRow(1)
         \o "S355,1.0577,7850.0,490.0,355.0,210000.0,STRUCTURAL_STEEL\r\n"),
     FileWith(MatHeader(",") \o MatRow(1)
         \o "S355,1.0577,7850.0,490.0,355.0,210000.0,Type.STRUCTURAL_STEEL\r\n")}

\* a type argument of the constructor: a member of MaterialType, a string,
\* or None
Member(name) == [kind |-> "member", name |-> name]

\* the arguments the constructor is called with
MatArgs ==
    {<<"S355", "1.0577", FloatNum(7850), FloatNum(490), FloatNum(355),
       FloatNum(210000), Member("STRUCTURAL_STEEL")>>,
     <<"C45", "1.0503", IntNum(7850), IntNum(700), IntNum(490),
       IntNum(210000), Member("HEAT_TREATABLE_STEEL")>>,
     <<"31CrMoV9, QT", "1.8519", FloatNum(7850), FloatNum(1000),
       FloatNum(800), FloatNum(210000), Member("NITRIDING_STEEL")>>,
     <<"3/8\" bar", "1.0038", FloatNum(7850), FloatNum(360), FloatNum(235),
       FloatNum(210000), Member("STRUCTURAL_STEEL")>>,
     <<"S235", "1.0038", Inf, FloatNum(360), FloatNum(235),
       FloatNum(210000), Member("STRUCTURAL_STEEL")>>,
     <<"S235", "1.0038", FloatNum(7850), FloatNum(360), FloatNum(235),
       FloatNum(210000), [kind |-> "str", name |-> "STRUCTURAL_STEEL"]>>,
     <<"S235", "1.0038", FloatNum(7850), FloatNum(360), FloatNum(235),
       FloatNum(210000), [kind |-> "none", name |-> "None"]>>}

\* a == b for two Material objects
MatEq(a, b) ==
    /\ a.name = b.name /\ a.matnr = b.matnr /\ a.type = b.type
    /\ NumEq(a.density, b.density)
    /\ NumEq(a.tensilestrength, b.tensilestrength)
    /\ NumEq(a.yieldstress, b.yieldstress)
    /\ NumEq(a.youngsmodulus, b.youngsmodulus)

\* the user points the program at a material file
MatChooseFile ==
    /\ mat_op = ""
    /\ mat_file' \in MatFiles
    /\ mat_op' = "chosen"
    /\ UNCHANGED <<mat_prev, mat_obj, mat_arg, mat_list, mat_error,
                   mat_saved, mat_saves, nonmat>>

\* Material(name, matnr, density, tensilestrength, yieldstress,
\* youngsmodulus, type): __post_init__ rejects a type that is no member
MatConstruct ==
    /\ mat_op # "" /\ mat_saves = 0
    /\ \E a \in MatArgs :
        /\ mat_arg' = a[7]
        /\ IF IsMaterialType(a[7])
           THEN /\ mat_obj' = <<[name |-> a[1], matnr |-> a[2],
                                 density |-> a[3], tensilestrength |-> a[4],
                                 yieldstress |-> a[5],
                                 youngsmodulus |-> a[6],
                                 type |-> a[7].name]>>
                /\ mat_error' = ""
           ELSE /\ mat_obj' = mat_obj
                /\ mat_error' = "MaterialTypeError"
    /\ mat_op' = "construct"
    /\ UNCHANGED <<mat_file, mat_prev, mat_list, mat_saved, mat_saves,
                   nonmat>>

\* mat.<slot> = value on a constructed Material
MatSetAttr ==
    /\ mat_op # "" /\ mat_obj # <<>> /\ mat_saves = 0
    /\ \E j \in 1 .. 7 :
        IF Frozen
        THEN mat_obj' = mat_obj /\ mat_error' = "FrozenInstanceError"
        ELSE /\ mat_obj' = <<[mat_obj[1] EXCEPT ![Slots[j]] =
                                 IF j \in 3 .. 6 THEN IntNum(1) ELSE "X"]>>
             /\ mat_error' = ""
    /\ mat_op' = "setattr" /\ mat_arg' = <<>>
    /\ UNCHANGED <<mat_file, mat_prev, mat_list, mat_saved, mat_saves,
                   nonmat>>

\* Material.mat_to_file(path, mat)
MatToFileCall ==
    /\ mat_op # "" /\ mat_obj # <<>>
    /\ mat_saves < MaxSaves
    /\ mat_saves' = mat_saves + 1
    /\ mat_prev' = mat_file
    /\ LET saved == MatToFile(mat_file, mat_obj[1])
       IN  mat_file' = saved.file /\ mat_error' = saved.error
    /\ mat_saved' = mat_obj
    /\ mat_op' = "save" /\ mat_arg' = <<>>
    /\ UNCHANGED <<mat_obj, mat_list, nonmat>>

\* Material.mats_from_file(path)
MatsFromFileCall ==
    /\ mat_op # ""
    /\ LET loaded == MatsFromFile(mat_file)
       IN  mat_list' = loaded.mats /\ mat_error' = loaded.error
    /\ mat_op' = "load" /\ mat_arg' = <<>>
    /\ UNCHANGED <<mat_file, mat_prev, mat_obj, mat_saved, mat_saves,
                   nonmat>>

NextMat ==
    \/ MatChooseFile
    \/ MatConstruct
    \/ MatSetAttr
    \/ MatToFileCall
    \/ MatsFromFileCall

SpecMat == Init /\ [][NextMat]_vars

(* ------------------------ the material catalog ------------------------- *)

\* the things a user does in a session: close the Settings dialog, pick a
\* view or a material, open the Add Material dialog, press Add or Cancel
MaxGuiOps == 3

\* the user does one more thing
UserActs == gui_ops < MaxGuiOps /\ gui_ops' = gui_ops + 1

\* a material file with two materials that differ in name and in number
TwoMaterials ==
    FileWith(MatHeader(",")
        \o "S235,1.0038,7850.0,360.0,235.0,210000.0,MaterialType.STRUCTURAL_STEEL\r\n"
        \o "C45,1.0503,7850.0,700.0,490.0,210000.0,MaterialType.HEAT_TREATABLE_STEEL\r\n")

\* the files the material path can lead to: no file, a header alone, two
\* different materials, two materials with one number, and
\* a material of a type that is no member of MaterialType
CatalogFiles ==
    {NoFile, MatFileOf(0), TwoMaterials, MatFileOf(2),
     FileWith(MatHeader(",") \o MatRow(1)
         \o "Cu,2.0060,8930.0,200.0,40.0,120000.0,MaterialType.COPPER\r\n")}

\* what the user has entered when Add is pressed: name, number, density,
\* tensile strength, yield stress, Young's modulus and type
DlgInputs ==
    {<<"S355", "1.0577", "7850", "490", "355", "210000", "STRUCTURAL_STEEL">>,
     <<"S235", "1.0037", "7850", "360", "235", "210000", "STRUCTURAL_STEEL">>,
     <<"S235JR", "1.0038", "7850", "360", "235", "210000",
       "STRUCTURAL_STEEL">>,
     <<"Zero", "1.0000", "7850", "360", "0", "210000", "STRUCTURAL_STEEL">>,
     <<"S275", "1.0044", "7850", "430", "275", "", "STRUCTURAL_STEEL">>,
     <<"S275", "1.0044", "7850", "430", "275", "210000", "">>,
     <<"Cu", "2.0060", "8930", "200", "40", "120000", "COPPER">>}

\* float(t) of a text without sign and exponent
ParseFloat(t) ==
    LET dots == Positions(t, ".")
        dot == CHOOSE j \in dots : TRUE
        a == SubSeq(t, 1, dot - 1)
        b == SubSeq(t, dot + 1, Len(t))
    IN  IF Len(t) > 0 /\ AllDigits(t)
        THEN [error |-> "", value |-> FloatNum(StrToInt(t))]
        ELSE IF Cardinality(dots) = 1 /\ AllDigits(a) /\ AllDigits(b)
                /\ Len(t) > 1
        THEN [error |-> "",
              value |-> [kind |-> "float", whole |-> StrToInt(a),
                         frac |-> StripZeros(b)]]
        ELSE IF t = "inf" THEN [error |-> "", value |-> Inf]
        ELSE [error |-> "ValueError"]

\* v > 0 for a number
Positive(v) == v.kind = "inf" \/ v.whole > 0 \/ v.frac # ""

\* round(v, 0): an int stays an int, a float goes to the nearest whole
\* float, a half to the even one
Round0(v) ==
    IF v.kind # "float" \/ v.frac = "" THEN v
    ELSE LET first == StrToInt(SubSeq(v.frac, 1, 1))
             up == \/ first > 5
                   \/ first = 5 /\ Len(v.frac) > 1
                   \/ first = 5 /\ v.whole % 2 = 1
         IN  FloatNum(IF up THEN v.whole + 1 ELSE v.whole)

\* Material.to_string and Material.to_string_nr; "^2" stands for the
\* superscript two of the unit
MatToString(m) ==
    m.name \o " (" \o NumToStr(Round0(m.yieldstress)) \o " N/mm^2)"

MatToStringNr(m) ==
    m.matnr \o " (" \o NumToStr(Round0(m.yieldstress)) \o " N/mm^2)"

\* MainWindow._update_cb
UpdateCb(mats) ==
    /\ mat_cb' = mat_cb \o [j \in 1 .. Len(mats) |-> MatToString(mats[j])]
    /\ mat_nr_cb' = mat_nr_cb
                       \o [j \in 1 .. Len(mats) |-> MatToStringNr(mats[j])]

\* Combobox.current(): the place of the text shown among the values, 0
\* when it is none of them (-1 in the program)
Current(values, text) ==
    LET places == {j \in 1 .. Len(values) : values[j] = text}
    IN  IF places = {} THEN 0
        ELSE CHOOSE j \in places : \A x \in places : j <= x

\* MainWindow._setmat for the combobox of the bolt's material; the
\* comboboxes of the rod's and the fork's material are treated alike
SetMat(view) ==
    LET cur == Current(cb_values, cb_text)
        shown == IF view = 1 THEN mat_cb' ELSE mat_nr_cb'
    IN  /\ cb_values' = shown
        /\ cb_text' = IF cur >= 1 THEN shown[cur] ELSE ""

\* the exceptions MainWindow._import_mat catches
ImportCaught == {"MaterialFileNotFoundError", "MaterialFileError"}

\* everything of the material section but the file itself
matrest == <<mat_prev, mat_obj, mat_arg, mat_list, mat_error, mat_saved,
             mat_saves, mat_op>>

\* MainWindow.__init__ up to the call of _import_mat, with the file the
\* material path leads to
GuiStart ==
    /\ gui_pc = "new"
    /\ \E file \in CatalogFiles : mat_file' = file
    /\ gui_pc' = "import"
    /\ gui_op' = "start"
    /\ UNCHANGED <<gui_error, materials, mat_cb, mat_nr_cb, cb_values,
                   cb_text, mat_view, dlg, adds, gui_ops, runvars, matrest,
                   infovars, repvars>>

\* MainWindow._settings up to the call of _import_mat: after the dialog
\* the material path leads to the file it led to or to another one
SettingsClosed ==
    /\ gui_pc = "main" /\ UserActs
    /\ \E file \in CatalogFiles \cup {mat_file} : mat_file' = file
    /\ gui_pc' = "import"
    /\ gui_op' = "settings"
    /\ UNCHANGED <<gui_error, materials, mat_cb, mat_nr_cb, cb_values,
                   cb_text, mat_view, dlg, adds, runvars, matrest, infovars,
                   repvars>>

\* MainWindow._import_mat and what its caller does next, for the outcome
\* of mats_from_file. The list read replaces _materials, a caught error
\* leaves it, and _update_cb follows in both cases; then __init__ makes
\* the widgets, the material comboboxes with the names, and _settings
\* calls _setmat. Any other exception leaves _import_mat and its caller
Imported(loaded, done) ==
    /\ gui_error' = loaded.error
    /\ IF loaded.error = ""
       THEN materials' = loaded.mats /\ UpdateCb(loaded.mats)
       ELSE IF done
       THEN materials' = materials /\ UpdateCb(materials)
       ELSE UNCHANGED <<materials, mat_cb, mat_nr_cb>>
    /\ IF gui_op = "start"
       THEN /\ gui_pc' = IF done THEN "main" ELSE "failed"
            /\ cb_values' = IF done THEN mat_cb' ELSE cb_values
            /\ cb_text' = cb_text
       ELSE /\ gui_pc' = "main"
            /\ IF done THEN SetMat(mat_view)
               ELSE UNCHANGED <<cb_values, cb_text>>

Caught(loaded) == Imported(loaded, loaded.error \in ImportCaught \cup {""})

ImportMat ==
    /\ gui_pc = "import"
    /\ Caught(MatsFromFile(mat_file))
    /\ UNCHANGED <<gui_op, mat_view, dlg, adds, gui_ops, mat_file, runvars,
                   matrest, infovars, repvars>>

\* the radio buttons Materialname and Materialnumber: _setmat
SelectView ==
    /\ gui_pc = "main" /\ UserActs
    /\ \E view \in {1, 2} :
        /\ view # mat_view
        /\ mat_view' = view
        /\ UNCHANGED <<mat_cb, mat_nr_cb>>
        /\ SetMat(view)
    /\ gui_op' = "view"
    /\ UNCHANGED <<gui_pc, gui_error, materials, dlg, adds,
                   mat_file, runvars, matrest, infovars, repvars>>

\* the user picks an entry of the combobox of the bolt's material
SelectMaterial ==
    /\ gui_pc = "main" /\ UserActs
    /\ \E j \in 1 .. Len(cb_values) :
        /\ cb_text # cb_values[j]
        /\ cb_text' = cb_values[j]
    /\ gui_op' = "select"
    /\ UNCHANGED <<gui_pc, gui_error, materials, mat_cb, mat_nr_cb, cb_values,
                   mat_view, dlg, adds, mat_file, runvars,
                   matrest, infovars, repvars>>

\* MainWindow._add_material up to add.to_main(): the dialog opens
AddMaterialOpen ==
    /\ gui_pc = "main" /\ UserActs
    /\ gui_pc' = "dialog"
    /\ gui_op' = "open"
    /\ UNCHANGED <<gui_error, materials, mat_cb, mat_nr_cb, cb_values,
                   cb_text, mat_view, dlg, adds, mat_file, runvars,
                   matrest, infovars, repvars>>

\* the test of AddMaterial._add for a material that is specified already
AlreadySpecified_C24Mutant(mats, name, nr) ==
    \E j \in 1 .. Len(mats) : mats[j].name = name

AlreadySpecified(mats, name, nr) ==
    \/ \E j \in 1 .. Len(mats) : mats[j].name = name
    \/ \E j \in 1 .. Len(mats) : mats[j].matnr = nr

\* AddMaterial._add: the outcome for the texts t of the dialog. An empty
\* text box or type leaves the dialog open, a material specified already
\* too; else the Material is made, written to the file and appended, and
\* the dialog is closed, also after an exception the method catches; any
\* other exception leaves the method with the dialog open
AddOutcome(t) ==
    LET numbers == [j \in 3 .. 6 |-> ParseFloat(t[j])]
        mat == [name |-> t[1], matnr |-> t[2], density |-> numbers[3].value,
                tensilestrength |-> numbers[4].value,
                yieldstress |-> numbers[5].value,
                youngsmodulus |-> numbers[6].value, type |-> t[7]]
        saved == MatToFile(mat_file, mat)
    IN  IF \E j \in 1 .. 5 : t[j] = "" THEN [op |-> "empty", error |-> ""]
        ELSE IF t[7] = "" THEN [op |-> "empty", error |-> ""]
        ELSE IF AlreadySpecified(materials, t[1], t[2])
        THEN [op |-> "specified", error |-> ""]
        ELSE IF \E j \in 3 .. 6 : numbers[j].error # ""
        THEN [op |-> "raised", error |-> "ValueError"]
        ELSE IF t[7] \notin MaterialTypes
        THEN [op |-> "raised", error |-> "KeyError"]
        ELSE IF saved.error = ""
        THEN [op |-> "added", error |-> "", mat |-> mat, file |-> saved.file]
        ELSE IF saved.error = "MaterialFileNotFoundError"
        THEN [op |-> "caught", error |-> saved.error]
        ELSE [op |-> "raised", error |-> saved.error]

Add ==
    /\ gui_pc = "dialog" /\ UserActs
    /\ adds' = adds + 1
    /\ \E t \in DlgInputs :
        LET out == AddOutcome(t)
        IN  /\ dlg' = t
            /\ gui_op' = out.op /\ gui_error' = out.error
            /\ IF out.op = "added"
               THEN /\ mat_file' = out.file
                    /\ materials' = Append(materials, out.mat)
               ELSE UNCHANGED <<mat_file, materials>>
            /\ gui_pc' = IF out.op \in {"added", "caught"} THEN "closing"
                         ELSE "dialog"
    /\ UNCHANGED <<mat_cb, mat_nr_cb, cb_values, cb_text, mat_view, runvars,
                   matrest, infovars, repvars>>

\* AddMaterial._cancel
Cancel ==
    /\ gui_pc = "dialog" /\ UserActs
    /\ gui_pc' = "closing"
    /\ gui_op' = "cancel"
    /\ UNCHANGED <<gui_error, materials, mat_cb, mat_nr_cb, cb_values,
                   cb_text, mat_view, dlg, adds, mat_file,
                   runvars, matrest, infovars, repvars>>

\* MainWindow._add_material after add.to_main(): _update_cb and _setmat
AddMaterialReturn ==
    /\ gui_pc = "closing"
    /\ UpdateCb(materials)
    /\ SetMat(mat_view)
    /\ gui_pc' = "main"
    /\ UNCHANGED <<gui_op, gui_error, materials, mat_view, dlg, adds, gui_ops,
                   mat_file, runvars, matrest, infovars, repvars>>

NextCatalog ==
    \/ GuiStart
    \/ SettingsClosed
    \/ ImportMat
    \/ SelectView
    \/ SelectMaterial
    \/ AddMaterialOpen
    \/ Add
    \/ Cancel
    \/ AddMaterialReturn

SpecCatalog == Init /\ [][NextCatalog]_vars

(* ---------------------- the tables on their own ------------------------ *)

\* arguments for calls of the static methods _calc_l and _calc_m_b and of
\* _calc_k_t on a freshly constructed Calculation
FnForces == {-1000, 0, 1000}
FnRodThicknesses == {7, 40}
FnForkThicknesses == {3, 10}
FnShearCounts == 0 .. 3

\* Calculation._calc_l(l_type)
FnCalcL ==
    /\ pc = "idle"
    /\ \E lt \in LoadTypes \cup OtherLoadTypes :
        /\ l_type' = lt
        /\ l' = CalcL(lt)
    /\ pc' = "fn_calc_l"
    /\ case' = "" /\ F_in' = 0 /\ t_r' = 0 /\ t_f' = 0 /\ n' = 0
    /\ M_b' = RInt(0) /\ k' = RInt(0)
    /\ mat_bolt' = NoMaterial /\ d' = 0 /\ k_t' = RInt(0)
    /\ UNCHANGED <<F_r, K_A, S, mat_rod, mat_fork, stresses, yieldstress_min,
                   depth, A3, A10, bolt_diameter, error, tail>>

\* Calculation._calc_m_b(case, F_r, t_r, t_f, n)
FnCalcMb ==
    /\ pc = "idle"
    /\ \E cs \in Cases \cup OtherCases, F \in FnForces,
          tr \in FnRodThicknesses, tf \in FnForkThicknesses,
          nn \in FnShearCounts :
        /\ case' = cs /\ F_in' = F /\ t_r' = tr /\ t_f' = tf /\ n' = nn
        /\ M_b' = CalcMb(cs, F, tr, tf, nn)[1]
        /\ k' = CalcMb(cs, F, tr, tf, nn)[2]
    /\ pc' = "fn_calc_m_b"
    /\ l_type' = "" /\ l' = <<>>
    /\ mat_bolt' = NoMaterial /\ d' = 0 /\ k_t' = RInt(0)
    /\ UNCHANGED <<F_r, K_A, S, mat_rod, mat_fork, stresses, yieldstress_min,
                   depth, A3, A10, bolt_diameter, error, tail>>

\* Calculation._calc_k_t(d) with _k_t = 0 as __post_init__ leaves it
FnCalcKt ==
    /\ pc = "idle"
    /\ \E type \in MaterialTypes, dd \in 1 .. MaxKtD :
        /\ mat_bolt' = [type |-> type, yieldstress |-> 235]
        /\ d' = dd
        /\ k_t' = CalcKt(type, dd, RInt(0))
    /\ pc' = "fn_calc_k_t"
    /\ l_type' = "" /\ l' = <<>>
    /\ case' = "" /\ F_in' = 0 /\ t_r' = 0 /\ t_f' = 0 /\ n' = 0
    /\ M_b' = RInt(0) /\ k' = RInt(0)
    /\ UNCHANGED <<F_r, K_A, S, mat_rod, mat_fork, stresses, yieldstress_min,
                   depth, A3, A10, bolt_diameter, error, tail>>

NextFn == FnCalcL \/ FnCalcMb \/ FnCalcKt

SpecFn == Init /\ [][NextFn]_vars

(* ------------------------------ claims --------------------------------- *)

REq(x, y) == Rat(x[1], x[2]) = Rat(y[1], y[2])
RMax(x, y) == IF RLeq(x, y) THEN y ELSE x
RMin(x, y) == IF RLeq(x, y) THEN x ELSE y

\* 1 - 0.41 * log10(d / 16) and 1 - 0.23 * log10(d / 100)
RawHeat(dd) == <<100000 - 41 * Log10Ratio(dd, 16), 100000>>
RawStructural(dd) == <<100000 - 23 * Log10Ratio(dd, 100), 100000>>

\* the size factor the specification gives for a material type and diameter
ClampedKt(type, dd) ==
    IF type = "HEAT_TREATABLE_STEEL"
    THEN RMax(<<60, 100>>, RMin(<<1, 1>>, RawHeat(dd)))
    ELSE RMax(<<89, 100>>, RMin(<<1, 1>>, RawStructural(dd)))

CheckPcs == {"check_kt", "bending", "shear", "pressure"}

\* the quantities of one verification pass, as the specification writes them
ClaimAllowedBending == RDiv(RMul(RMul(k_t, RInt(mat_bolt.yieldstress)), l[1]), S)
ClaimBending == RDiv(RMul(RMul(K_A, M_b), RInt(32)), RMul(Pi, RInt(d * d * d)))
ClaimAllowedShear == RDiv(RMul(RMul(k_t, RInt(mat_bolt.yieldstress)), l[2]), S)
ClaimShear ==
    RMul(Rat(4, 3), RDiv(RMul(K_A, RInt(F_r)), RMul(Pi, Rat(2 * d * d, 4))))
ClaimPMax ==
    RMul(RMul(k_t, RInt(SetMin({mat_rod.yieldstress, mat_fork.yieldstress,
                                mat_bolt.yieldstress}))), l[3])
ClaimPFork == RDiv(RMul(K_A, RInt(F_r)), RInt(d * n * t_f))
ClaimPRod == RDiv(RMul(K_A, RInt(F_r)), RInt(d * t_r))
ClaimForkMarginFails == RLeq(RDiv(ClaimPMax, S), ClaimPFork)
ClaimRodMarginFails == RLeq(RMul(ClaimPMax, S), ClaimPRod)

\* C1: a diameter returned by _check passed the bending and the shear check
\* of the returning pass with k_t computed for that diameter, and the
\* pressure check of that pass did not ask for a larger diameter.
C1_ReturnedDiameterPassed ==
    pc = "returned" =>
        /\ REq(k_t, ClampedKt(mat_bolt.type, d))
        /\ RLt(ClaimBending, ClaimAllowedBending)
        /\ RLt(ClaimShear, ClaimAllowedShear)
        /\ ~(ClaimForkMarginFails /\ ClaimRodMarginFails)

\* a diameter returned after at least one failed check
C1_Witness == pc = "returned" /\ depth >= 2

\* C2: the checks of a pass run in the order bending, shear, pressure, each
\* only after the one before it passed; a failed check ends the pass at
\* once, the next candidate is the worksheet's diameter for d + 1, and the
\* new pass computes k_t for that candidate before its bending check.
C2_CheckOrderAndRestart ==
    [][ /\ (pc = "bending" /\ RLeq(ClaimAllowedBending, ClaimBending)) =>
              /\ pc' \in {"check_kt", "raised"}
              /\ Len(stresses') = Len(stresses) + 2
              /\ A3' = d + 1 /\ d' = NextStandardDiameter(d + 1)
        /\ (pc = "shear" /\ RLeq(ClaimAllowedShear, ClaimShear)) =>
              /\ pc' \in {"check_kt", "raised"}
              /\ Len(stresses') = Len(stresses) + 2
              /\ A3' = d + 1 /\ d' = NextStandardDiameter(d + 1)
        /\ (pc = "pressure" /\ pc' # "returned") =>
              /\ pc' \in {"check_kt", "raised"}
              /\ A3' = d + 1 /\ d' = NextStandardDiameter(d + 1)
        /\ (pc \in CheckPcs /\ d' # d) => pc' \in {"check_kt", "raised"}
        /\ pc' = "bending" =>
              pc = "check_kt" /\ REq(k_t', ClampedKt(mat_bolt.type, d'))
        /\ pc' = "shear" =>
              pc = "bending" /\ ~RLeq(ClaimAllowedBending, ClaimBending)
        /\ pc' = "pressure" =>
              pc = "shear" /\ ~RLeq(ClaimAllowedShear, ClaimShear)
        /\ pc' = "returned" => pc = "pressure"
      ]_vars

\* a second pass about to run its bending check after the first pass ended
\* at its shear check
C2_Witness == pc = "bending" /\ depth = 2 /\ Len(stresses) = 4

\* the worksheet answered as the specification requires: A10 is the
\* smallest diameter of the column that is >= A3
Conforms(request, answer) ==
    /\ answer \in StdDiameters
    /\ answer >= request
    /\ \A s \in StdDiameters : s >= request => answer <= s

\* C3: while _check runs the candidate only changes after a failed check,
\* and whenever the worksheet then answers with the smallest diameter of the
\* column that is >= its input, the new candidate is strictly greater.
C3_CandidatesIncrease ==
    [][ /\ pc \in CheckPcs =>
          (IF pc' \in {"check_kt", "raised"}
           THEN Conforms(A3', A10') => d' > d
           ELSE d' = d)
      ]_vars

\* a candidate that replaced a smaller one after a failed check
C3_Witness ==
    /\ pc = "check_kt" /\ depth >= 2
    /\ Conforms(A3, A10) /\ d = A10 /\ d > A3

\* C4: a run whose candidates never pass all three checks ends with an
\* explicit ExhaustedError after a maximum number of passes.
C4_EndsWithExhaustedError ==
    (pc = "raised" /\ depth > 0 /\ i = 0) => error = "ExhaustedError"

\* C5: the pressure check asks for a larger diameter exactly when
\* p_max / S <= p_fork and p_max * S <= p_rod both hold; otherwise, also
\* when only one of the two holds, d is accepted.
C5_PressureBumpIffBoth ==
    [][ /\ pc = "pressure" =>
          (IF ClaimForkMarginFails /\ ClaimRodMarginFails
           THEN pc' \in {"check_kt", "raised"} /\ A3' = d + 1
           ELSE pc' = "returned" /\ d' = d)
      ]_vars

\* a diameter accepted although exactly one of the two comparisons holds
C5_Witness ==
    /\ pc = "returned"
    /\ ClaimForkMarginFails # ClaimRodMarginFails

\* C6: every diameter returned by _check satisfies both pressure margins,
\* p_max / S > p_fork and p_max * S > p_rod.
C6_ReturnedHasBothMargins ==
    pc = "returned" => ~ClaimForkMarginFails /\ ~ClaimRodMarginFails

\* C7: a force supplied negative is replaced by its absolute value in every
\* formula: F_r and the bending moment are those of a run given |F_r|.
C7_AbsoluteForceEverywhere ==
    pc \notin {"idle"} =>
        /\ F_r = Abs(F_in)
        /\ M_b = CalcMb(case, Abs(F_in), t_r, t_f, n)[1]
        /\ M_b[1] >= 0

\* C8: the bending moment and clamping factor of _calc_m_b follow the table
\* of the specification for every case tag and shear count.
C8_MomentAndClampTable ==
    pc = "fn_calc_m_b" =>
        IF case = "Case 1"
        THEN REq(M_b, <<F_in * (t_r + n * t_f), 8>>) /\ k = <<8, 5>>
        ELSE IF case = "Case 2" /\ n = 2
        THEN REq(M_b, <<F_in * t_r, 8>>) /\ k = <<11, 10>>
        ELSE IF case = "Case 2" /\ n = 1
        THEN REq(M_b, <<F_in * t_r, 1>>) /\ k = <<11, 10>>
        ELSE REq(M_b, <<F_in * t_f, 1>>) /\ k = <<11, 10>>

\* "Case 2" with a single shear: the moment is not divided by 8
C8_Witness ==
    /\ pc = "fn_calc_m_b" /\ case = "Case 2" /\ n = 1
    /\ F_in = 1000 /\ t_r = 40 /\ M_b = <<40000, 1>>

\* C9: _calc_l returns [0.30, 0.20, 0.35] for "static", [0.20, 0.15, 0.25]
\* for "pulsating" and [0.15, 0.10, 1.0] for every other tag, and always
\* returns a triple.
C9_LoadFactorTable ==
    pc = "fn_calc_l" =>
        /\ Len(l) = 3
        /\ l = IF l_type = "static" THEN <<<<3, 10>>, <<1, 5>>, <<7, 20>>>>
               ELSE IF l_type = "pulsating"
               THEN <<<<1, 5>>, <<3, 20>>, <<1, 4>>>>
               ELSE <<<<3, 20>>, <<1, 10>>, <<1, 1>>>>

\* an unknown tag got the factors of the alternating load
C9_Witness ==
    /\ pc = "fn_calc_l" /\ l_type = "swelling"
    /\ l = <<<<3, 20>>, <<1, 10>>, <<1, 1>>>>

\* C10: after _calc_k_t(d), d > 0, k_t is the raw formula clamped to
\* [0.60, 1.0] for heat-treatable steel and to [0.89, 1.0] for structural and
\* nitriding steel: 1.0 up to d = 16 resp. d = 100, the floor once the raw
\* value is below it, and always within [0.60, 1.0].
C10_SizeFactorClamped ==
    pc = "fn_calc_k_t" =>
        /\ REq(k_t, ClampedKt(mat_bolt.type, d))
        /\ (mat_bolt.type = "HEAT_TREATABLE_STEEL" /\ d <= 16) => k_t = <<1, 1>>
        /\ (mat_bolt.type # "HEAT_TREATABLE_STEEL" /\ d <= 100) => k_t = <<1, 1>>
        /\ (mat_bolt.type = "HEAT_TREATABLE_STEEL"
              /\ RLt(RawHeat(d), <<60, 100>>)) => k_t = <<3, 5>>
        /\ (mat_bolt.type # "HEAT_TREATABLE_STEEL"
              /\ RLt(RawStructural(d), <<89, 100>>)) => k_t = <<89, 100>>
        /\ RLeq(<<60, 100>>, k_t) /\ RLeq(k_t, <<1, 1>>)

\* structural steel so thick that the raw value is below the floor 0.89
C10_Witness ==
    /\ pc = "fn_calc_k_t" /\ mat_bolt.type = "STRUCTURAL_STEEL"
    /\ RLt(RawStructural(d), <<89, 100>>) /\ k_t = <<89, 100>>

\* C11: when the worksheet answers 0 for every trial length, set_length
\* stops after a maximum number of retries with an explicit ExhaustedError.
C11_LengthRetryEndsWithExhaustedError ==
    (pc = "raised" /\ i > 0) => error = "ExhaustedError"

\* C12: a run of main that ends with an error, at whatever step, leaves
\* bolt.diameter and bolt.length unset.
C12_FailedRunLeavesBoltUnset ==
    pc = "raised" => bolt_diameter = <<>> /\ bolt_length = <<>>

\* C14: main assigns the final diameter, then resolves the length, then
\* binds the sub-dimensions, then closes the connection; when
\* set_dimensions reads, the last diameter lookup is the one that returned
\* bolt.diameter, and the bound sub-dimensions are those of its row.
C14_OrderAndRowOfDiameter ==
    [][ /\ (pc' = "set_length" /\ pc # "set_length") =>
              /\ pc = "returned" /\ bolt_diameter = <<>>
              /\ bolt_diameter' = <<d>>
              /\ bolt_length' = <<>> /\ bolt_dims' = <<>>
        /\ pc' = "set_dimensions" =>
              /\ pc = "set_length" /\ bolt_diameter' = bolt_diameter
              /\ bolt_length = <<>> /\ bolt_length' # <<>>
              /\ bolt_dims' = <<>>
        /\ pc' = "close" =>
              /\ pc = "set_dimensions"
              /\ A10 = NextStandardDiameter(A3) /\ <<A10>> = bolt_diameter
              /\ bolt_dims' # <<>>
              /\ \A f \in DOMAIN bolt_dims' :
                    bolt_dims'[f][2] = bolt_diameter[1]
              /\ bolt_diameter' = bolt_diameter /\ bolt_length' = bolt_length
        /\ pc' = "done" =>
              /\ pc = "close"
              /\ bolt_diameter' = bolt_diameter /\ bolt_length' = bolt_length
              /\ bolt_dims' = bolt_dims
      ]_vars

\* a finished run whose length needed retries: the sub-dimensions are
\* still those of the row of bolt.diameter
C14_Witness ==
    /\ pc = "done" /\ i >= 3
    /\ bolt_diameter = <<A10>> /\ bolt_length # <<>>
    /\ \A f \in DOMAIN bolt_dims : bolt_dims[f][2] = bolt_diameter[1]
    /\ bolt_dims # <<>>

\* C13: bolt.diameter and bolt.length are write-once: over any sequence of
\* operations on a bolt, several runs of main included, a field that holds
\* a value is never given another one.
C13_WriteOnce ==
    [][ /\ (bolt_diameter # <<>> /\ bolt_diameter' # <<>>) =>
              bolt_diameter' = bolt_diameter
        /\ (bolt_length # <<>> /\ bolt_length' # <<>>) =>
              bolt_length' = bolt_length
      ]_vars

OwnTrial(q) ==
    IF q.i = 1 THEN 0 ELSE q.inp.t_r + (q.inp.n * q.inp.t_f) + (q.i - 1)

C17_RoundTrip ==
    (mat_op = "load" /\ mat_saved # <<>>
         /\ MatsFromFile(mat_prev).error = "") =>
        /\ mat_error = ""
        /\ \E j \in 1 .. Len(mat_list) : MatEq(mat_list[j], mat_saved[1])

\* C18: mat_to_file adds one line after the text the file had and leaves
\* that text as it was, whatever the length of the file.
C18_SaveAppendsOneRecord ==
    (mat_op = "save" /\ mat_error = "") =>
        LET old == mat_prev.text
            new == mat_file.text
        IN  /\ Len(new) > Len(old)
            /\ SubSeq(new, 1, Len(old)) = old
            /\ Positions(SubSeq(new, Len(old) + 1, Len(new)), "\n")
                   = {Len(new) - Len(old)}

\* the cells of the last column of the rows of a material file, whose
\* columns are separated by commas or semicolons
TypeCells(text) ==
    LET ls == Lines(text)
        seps(r) == Positions(ls[r], ",") \cup Positions(ls[r], ";")
        last(r) == IF seps(r) = {} THEN 0
                   ELSE CHOOSE j \in seps(r) : \A x \in seps(r) : x <= j
    IN  {SubSeq(ls[r], last(r) + 1, Len(ls[r])) : r \in 2 .. Len(ls)}

\* C19: mats_from_file raises MaterialTypeError and returns no list when
\* the type cell of a row is not "MaterialType." followed by the name of
\* a member.
C19_UnmappableTypeRaisesMaterialTypeError ==
    (/\ mat_op = "load" /\ mat_saves = 0 /\ mat_file.exists
     /\ \E cell \in TypeCells(mat_file.text) :
            cell \notin {"MaterialType." \o m : m \in MaterialTypes}) =>
        mat_error = "MaterialTypeError" /\ mat_list = <<>>

C25_ReportedValuesOfFinalPass ==
    pc = "returned" =>
        /\ Len(stresses) >= 7
        /\ REq(k_t, ClampedKt(mat_bolt.type, d))
        /\ REq(RDiv(stresses[1], S), ClaimAllowedBending)
        /\ REq(stresses[2], ClaimBending)
        /\ REq(RDiv(stresses[3], S), ClaimAllowedShear)
        /\ REq(stresses[4], ClaimShear)
        /\ REq(stresses[5], ClaimPMax)
        /\ REq(stresses[6], ClaimPFork)
        /\ REq(stresses[7], ClaimPRod)

\* a diameter returned after a pass rejected in its shear or pressure check
\* and at least one more rejected pass
C25_Witness == pc = "returned" /\ depth >= 3 /\ Len(stresses) >= 13

\* C26: in set_length every answer 0 is followed by one new trial: the
\* k-th answer 0 in a row makes the call write t_r + n * t_f + k to A7 and
\* ask again; bolt.length receives the first answer that is not 0 and
\* never the answer 0.
C26_OneTrialPerNotFound ==
    [][ (pc = "set_length" /\ i' # i) =>
            LET length == StandardLength(B3', E3', C3', D3', A7)
            IN  /\ i' = i + 1
                /\ length = 0 =>
                       /\ A7' = t_r + (n * t_f) + i'
                       /\ bolt_length' = <<>>
                       /\ pc' = "set_length"
                /\ length # 0 => bolt_length' = <<length>>
      ]_vars

\* C28: an Excel application that was running before connect_to_excel is
\* still running after close_excel, whether the workbook was found open in
\* it or not.
C28_RunningExcelSurvivesClose ==
    (pc = "done" /\ was_running) => excel_running

\* C22: no bolt leaves set_dimensions with a sub-dimension bound to the
\* missing value of a cell without an entry (the binding fails instead).
C22_MissingSubDimensionRejected ==
    \A f \in DOMAIN bolt_dims : bolt_dims[f][1] # None

\* C23: the dict cad_dict returns for a BoltISO2340 has the keys name,
\* standard, diameter, length, chamfer_height_30, hole_diameter,
\* hole_distance and hole; hole is True exactly when the form is "B" and
\* False when the form is "A".
C23_CadDictOfISO2340 ==
    (cad # <<>> /\ standard = "ISO 2340") =>
        /\ DOMAIN cad = {"name", "standard", "diameter", "length",
                         "chamfer_height_30", "hole_diameter",
                         "hole_distance", "hole"}
        /\ cad.name = bolt_name /\ cad.standard = "ISO 2340"
        /\ cad.diameter = bolt_diameter[1] /\ cad.length = bolt_length[1]
        /\ cad.chamfer_height_30 = bolt_dims.chamfer_height_30
        /\ cad.hole_diameter = bolt_dims.hole_diameter
        /\ cad.hole_distance = bolt_dims.hole_dist
        /\ cad.hole = (form = "B")
        /\ form = "A" => cad.hole = FALSE

\* the dict of a sized bolt of form A
C23_Witness ==
    cad # <<>> /\ standard = "ISO 2340" /\ form = "A" /\ cad.hole = FALSE

\* C27: in the dict report_dict returns, the entry "Clamping Case:" begins
\* with the case the calculation was made for, and the entry
\* "Connection Type:" is "single shear" exactly when n = 1.
C27_ReportNamesCaseAndConnection ==
    report # <<>> =>
        /\ SubSeq(report.clamping_case, 1, 6) = case
        /\ (report.connection_type = "single shear") <=> (n = 1)

\* C30: a _save_report that finds the file without a counter open in a
\* viewer writes the report to the file with the first counter 1, 2, 3,
\* ... that no file has yet, and changes no file that exists.
C30_FirstFreeCounter ==
    [][ (rep_saves' = rep_saves + 1 /\ rep_error' = "" /\ 0 \in rep_open) =>
            LET free == {c \in Counters \ {0} : rep_files[c] = 0}
            IN  free # {} =>
                  LET first == CHOOSE c \in free : \A c2 \in free : c <= c2
                  IN  /\ rep_out' = <<first>>
                      /\ rep_files' = [rep_files EXCEPT ![first] = rep_saves']
      ]_vars

\* C21: every Material of the catalog, read from the file or made by the
\* Add Material dialog, has a yield stress above 0.
C21_YieldStressPositive ==
    \A j \in 1 .. Len(materials) : Positive(materials[j].yieldstress)

\* no two materials of a list share a name, and no two share a number
Unique(mats) ==
    \A a, b \in 1 .. Len(mats) :
        a # b => mats[a].name # mats[b].name /\ mats[a].matnr # mats[b].matnr

\* C24: _add keeps the names and the numbers of the catalog unique, and an
\* add that is turned down, for a name or number the catalog has or for
\* any other reason, leaves the catalog and the material file as they were.
C24_AddKeepsCatalogUnique ==
    [][ adds' = adds + 1 =>
            LET known == \E j \in 1 .. Len(materials) :
                             \/ materials[j].name = dlg'[1]
                             \/ materials[j].matnr = dlg'[2]
            IN  /\ Unique(materials) => Unique(materials')
                /\ (known \/ gui_op' # "added") =>
                       materials' = materials /\ mat_file' = mat_file
                /\ gui_op' = "added" =>
                       /\ Len(materials') = Len(materials) + 1
                       /\ SubSeq(materials', 1, Len(materials)) = materials
      ]_vars

\* an add turned down for its number, followed by an add that was accepted
C24_Witness ==
    /\ gui_op = "added" /\ adds = 2 /\ Len(materials) = 3
    /\ Unique(materials)

\* C29: whenever the main window waits for the user, _mat_cb and _mat_nr_cb
\* have one entry for each material of _materials, in the same order.
C29_ComboboxListsMatchCatalog ==
    gui_pc = "main" =>
        /\ mat_cb = [j \in 1 .. Len(materials) |-> MatToString(materials[j])]
        /\ mat_nr_cb =
               [j \in 1 .. Len(materials) |-> MatToStringNr(materials[j])]

====
